---- MODULE Spec2Model ----
(***************************************************************************)
(* A model of the StockCrawler scheduler (src/internal/scheduler.rs), of   *)
(* the dividend backfill job (src/internal/backfill/dividend.rs), of the   *)
(* upserts of the Revenue and daily_money_history tables                   *)
(* (src/internal/database/table), of the suspended-listing crawler         *)
(* (src/internal/crawler/suspend_listing.rs) and of the end-of-day quote   *)
(* job with the TTL cache it clears.                                       *)
(*                                                                         *)
(* The specifications share the variables:                                 *)
(*   Spec          start(), run_cron(), create_job() and the dispatch of   *)
(*                 the registered jobs by the tokio_cron_scheduler loop,   *)
(*                 with the cron expressions of the source;                *)
(*   SpecCronInput the same, create_job also being given a malformed cron  *)
(*                 expression;                                             *)
(*   SpecDividend  one invocation of backfill::dividend::execute, the two  *)
(*                 workflows it joins, and the clock they run against;     *)
(*   SpecDividendFair  the same, every awaited call returning;             *)
(*   SpecStore     callers of Revenue::upsert and DailyMoneyHistory::upsert,*)
(*                 with and without a transaction;                         *)
(*   SpecSuspend   invocations of suspend_listing::visit on the stock      *)
(*                 cache;                                                  *)
(*   SpecQuote     one invocation of the quote job and the users of the    *)
(*                 TTL cache;                                              *)
(*   SpecLog       the channel of one log level (src/logging/mod.rs), its  *)
(*                 senders and its writer task.                            *)
(***************************************************************************)
EXTENDS Integers, Sequences, FiniteSets

VARIABLES
    \* ---- scheduler.rs ----
    cronOf,        \* job -> the cron expression handed to create_job
    pc,            \* where start() is: "new", "add", "send", "done"
    toAdd,         \* the jobs the add loop of run_cron has still to add
    added,         \* the jobs sched.add accepted
    schedRunning,  \* sched.start() succeeded: the dispatch loop is ticking
    runCron,       \* what run_cron returned: "none", "Ok", "Err"
    startResult,   \* what start returned: "none", "Ok", "Err"
    sendCount,     \* calls of bot::telegram::send made by start
    sendResult,    \* what the send returned: "none", "Ok", "Err"
    startLog,      \* the error lines start() wrote
    clock,         \* index into Instants of the dispatch loop's last tick
    inflight,      \* job -> invocations of its wrapper that are running
    lastRet,       \* <<job, result>> of the task that returned last
    taskErrLogged, \* "Failed to execute task" lines written by the wrappers
    \* ---- backfill/dividend.rs ----
    now,           \* the wall clock, in seconds
    stored,        \* the dividend table: key -> its four dates
    pc1,           \* processing_without_or_multiple: "select", "visit",
                   \* "upsert" (the call it awaits), "sleep" (it is in
                   \* thread::sleep) or "done"
    cands1,        \* its stock_symbols
    idx1,          \* the index of the symbol it is at
    got1,          \* the map the visit returned, kept while the thread sleeps
    pend1,         \* the current-year details left, the head being upserted
    res1,          \* what it returned: "none", "Ok", "Err"
    starts1,       \* the time each of its goodinfo visits started
    pc2,           \* processing_with_unannounced_ex_dividend_dates:
                   \* "select", "visit", "update" or "done"
    cands2,        \* its dividends (entities read from the table)
    idx2,          \* the index of the entity it is at
    got2,          \* the candidate and the map of the last visit that
                   \* returned Ok
    ent2,          \* the entity being written by update_dividend_date
    res2,          \* what it returned
    starts2,       \* the time each of its yahoo visits started
    fetchFailed,   \* <<workflow, index>> of the visits that returned Err
    writes,        \* the write calls made (upsert, update_dividend_date)
    divLog,        \* the log lines of the job: <<line, workflow, index>>
    execResult,    \* what execute returned: "none", "Ok"
    \* ---- database/table/revenue.rs, daily_money_history.rs ----
    revTable,      \* the rows of "Revenue"
    revLog,        \* the calls of Revenue::upsert, in order
    dmhTable,      \* the committed rows of daily_money_history
    dmhLog,        \* the calls of DailyMoneyHistory::upsert, in order
    dmhTxs,        \* the state of each transaction a caller began
    \* ---- crawler/suspend_listing.rs ----
    stocks,        \* CACHE_SHARE.stocks: symbol -> StockRecord
    stocksLock,    \* the guard of CACHE_SHARE.stocks that visit() holds:
                   \* "none", "read" or "write"
    poisoned,      \* the RwLock of CACHE_SHARE.stocks is poisoned
    dbSuspended,   \* the symbols whose row of the stocks table is flagged
    slPc,          \* where visit() is: "idle", "fetch", "readlock", "scan",
                   \* "update", "extend", "done" or "panicked"
    slRuns,        \* the invocations of visit() so far
    delisting,     \* the feed the request returned
    slAt,          \* the index of the item the loop over the feed is at
    items_to_update, \* the clones the loop pushed, those left to update
    updated_stocks,  \* the clones whose update returned Ok
    slLog,         \* the error lines of this invocation
    slCalls,       \* its external calls, each with the guard held then
    \* ---- scheduler.rs: the quote job; the TTL cache ----
    qAt,           \* the index in Steps of the call the closure awaits, 0
                   \* when it is not running
    qStarted,      \* the calls it made, in order
    qOk,           \* the calls that returned Ok, in order
    qRes,          \* what the closure returned: "none", "Ok", "Err"
    qClears,       \* the calls of TTL.clear() it made
    ttlEntries,    \* the TTL cache: key -> value and insertion time
    ttlNow,        \* the clock of the TTL cache, in seconds
    ttlPuts,       \* the puts made so far
    ttlRead,       \* the last read: <<[key, at, res]>>
    ttlCleared,    \* the keys the last clear dropped and nobody has put
                   \* since, each with the insertion time it had
    \* ---- logging/mod.rs ----
    logChan,       \* the messages in the channel, the oldest first
    logLine,       \* the messages batched in `line`
    logFile,       \* the messages written to the log file, in order
    logConsole,    \* the error_console lines of the writer task
    logSent        \* the messages sent so far

schedVars == <<cronOf, pc, toAdd, added, schedRunning, runCron, startResult,
               sendCount, sendResult, startLog, clock, inflight, lastRet,
               taskErrLogged>>

divVars == <<now, stored, pc1, cands1, idx1, got1, pend1, res1, starts1, pc2,
             cands2, idx2, got2, ent2, res2, starts2, fetchFailed, writes, divLog,
             execResult>>

storeVars == <<revTable, revLog, dmhTable, dmhLog, dmhTxs>>

slVars == <<stocks, stocksLock, poisoned, dbSuspended, slPc, slRuns,
            delisting, slAt, items_to_update, updated_stocks, slLog, slCalls>>

quoteVars == <<qAt, qStarted, qOk, qRes, qClears, ttlEntries, ttlNow,
               ttlPuts, ttlRead, ttlCleared>>

\* The variables of the parts modelled after the scheduler and the dividend
\* job.
logVars == <<logChan, logLine, logFile, logConsole, logSent>>

extVars == <<storeVars, slVars, quoteVars, logVars>>

vars == <<schedVars, divVars, extVars>>

----------------------------------------------------------------------------
(* Bounds *)

\* Invocations of one job that may be running at once in the model.
MaxInFlight == 2
\* Error lines of the job wrappers that the model counts.
MaxLog == 2
\* Messages sent to the channel of a log level.
MaxMsgs == 3
\* Puts into the TTL cache.
MaxPuts == 2
\* The last instant of the clock of the TTL cache.
MaxTtlNow == 92
\* Invocations of suspend_listing::visit.
MaxRuns == 2
\* Statements sent to the Revenue and daily_money_history tables.
MaxStmts == 2
\* Transactions the callers of DailyMoneyHistory::upsert begin.
MaxTxs == 2
\* Candidates the selection queries of one invocation of the dividend job
\* return at most, both workflows together.
MaxCand == 3
\* Seconds by which the clock advances while a call is awaited.
Quantum == 45
\* The clock stops advancing during awaits beyond this many seconds.
MaxNow == 90

----------------------------------------------------------------------------
(* scheduler.rs: the registry *)

\* Four of the jobs run_cron registers; the others are registered the same
\* way.  Two share a cron expression, one fires every minute.
Jobs == {"quarter", "emerging", "dividend", "free_dns"}

\* The order of the jobs vector.
JobOrder == <<"quarter", "emerging", "dividend", "free_dns">>

\* A cron expression is the set of seconds, minutes and hours it matches
\* ("*" is the whole range); every expression of run_cron has "* * *" for
\* day of month, month and day of week.
Cron(s, m, h) == [sec |-> s, min |-> m, hour |-> h]

CronTable ==
    [j \in Jobs |->
        CASE j = "quarter"  -> Cron({0}, {0}, {17})     \* "0 0 17 * * *"
          [] j = "emerging" -> Cron({0}, {0}, {17})     \* "0 0 17 * * *"
          [] j = "dividend" -> Cron({0}, {0}, {13})     \* "0 0 13 * * *"
          [] j = "free_dns" -> Cron({0}, 0..59, 0..23)] \* "0 * * * * *"

\* An expression the cron parser rejects: hour 24.
BadCron == Cron({0}, {0}, {24})

\* The registries create_job is tried on: the one of the source, and the one
\* of the source with one expression malformed.
CronTables ==
    {CronTable} \cup {[CronTable EXCEPT ![j] = BadCron] : j \in Jobs}

\* Job::new_async parses the expression and fails on a malformed one.
ValidCron(e) ==
    /\ e.sec \subseteq 0..59 /\ e.sec # {}
    /\ e.min \subseteq 0..59 /\ e.min # {}
    /\ e.hour \subseteq 0..23 /\ e.hour # {}

\* create_job: Ok(Job) or Err.
create_job(e) == IF ValidCron(e) THEN "Ok" ELSE "Err"

RECURSIVE FlattenFrom(_, _)
FlattenFrom(table, i) ==
    IF i > Len(JobOrder) THEN <<>>
    ELSE IF create_job(table[JobOrder[i]]) = "Ok"
         THEN <<JobOrder[i]>> \o FlattenFrom(table, i + 1)
         ELSE FlattenFrom(table, i + 1)

\* jobs.into_iter().flatten(): the Ok values in order; an Err is dropped.
FlattenJobs(table) == FlattenFrom(table, 1)

\* The instants (UTC) at which the model's dispatch loop finds the clock, in
\* the order of a day, over and over.
Instants ==
    << [h |-> 13, m |-> 0, s |-> 0],
       [h |-> 13, m |-> 1, s |-> 0],
       [h |-> 17, m |-> 0, s |-> 0],
       [h |-> 17, m |-> 1, s |-> 0] >>

NextClock(c) == IF c = Len(Instants) THEN 1 ELSE c + 1

Due(j, t) ==
    /\ t.s \in cronOf[j].sec
    /\ t.m \in cronOf[j].min
    /\ t.h \in cronOf[j].hour

\* What a job's task can return.  dividend::execute ends in Ok(()) on every
\* path; the other tasks are outside this model and may fail.
TaskResults(j) == IF j = "dividend" THEN {"Ok"} ELSE {"Ok", "Err"}

----------------------------------------------------------------------------
(* scheduler.rs: start and run_cron *)

InitSched ==
    /\ pc = "new"
    /\ toAdd = <<>>
    /\ added = {}
    /\ schedRunning = FALSE
    /\ runCron = "none"
    /\ startResult = "none"
    /\ sendCount = 0
    /\ sendResult = "none"
    /\ startLog = {}
    /\ clock = 1
    /\ inflight = [j \in Jobs |-> 0]
    /\ lastRet = <<>>
    /\ taskErrLogged = 0

\* start() without the `?` after run_cron: it goes on to the notification.
RunCronFailsAndNotifies ==
    /\ runCron' = "Err"
    /\ startLog' = startLog \cup {"run_cron"}
    /\ startResult' = startResult
    /\ pc' = "send"

\* run_cron returned Err through a `?`: start logs it and returns it.
RunCronFails ==
    /\ runCron' = "Err"
    /\ startLog' = startLog \cup {"run_cron"}
    /\ startResult' = "Err"
    /\ pc' = "done"

\* JobScheduler::new().await?, then the jobs vector and its flatten().
SchedNew ==
    /\ pc = "new"
    /\ \E res \in {"Ok", "Err"} :
        IF res = "Ok"
        THEN /\ toAdd' = FlattenJobs(cronOf)
             /\ pc' = "add"
             /\ UNCHANGED <<runCron, startResult, startLog>>
        ELSE /\ RunCronFails
             /\ UNCHANGED toAdd
    /\ UNCHANGED <<cronOf, added, schedRunning, sendCount, sendResult, clock,
                   inflight, lastRet, taskErrLogged>>

\* sched.add(job).await? for the next job of the loop.
SchedAdd ==
    /\ pc = "add"
    /\ toAdd # <<>>
    /\ \E res \in {"Ok", "Err"} :
        IF res = "Ok"
        THEN /\ added' = added \cup {Head(toAdd)}
             /\ toAdd' = Tail(toAdd)
             /\ UNCHANGED <<pc, runCron, startResult, startLog>>
        ELSE /\ RunCronFails
             /\ UNCHANGED <<added, toAdd>>
    /\ UNCHANGED <<cronOf, schedRunning, sendCount, sendResult, clock,
                   inflight, lastRet, taskErrLogged>>

\* run_cron without the call of sched.start(): it returns Ok all the same.
SchedStartForgotten ==
    /\ pc = "add"
    /\ toAdd = <<>>
    /\ runCron' = "Ok"
    /\ pc' = "send"
    /\ UNCHANGED <<cronOf, toAdd, added, schedRunning, startResult, startLog,
                   sendCount, sendResult, clock, inflight, lastRet,
                   taskErrLogged>>

\* sched.start().await? and Ok(()): the dispatch loop runs on its own task
\* and run_cron returns to start, which goes on to the notification.
SchedStart ==
    /\ pc = "add"
    /\ toAdd = <<>>
    /\ \E res \in {"Ok", "Err"} :
        IF res = "Ok"
        THEN /\ schedRunning' = TRUE
             /\ runCron' = "Ok"
             /\ pc' = "send"
             /\ UNCHANGED <<startResult, startLog>>
        ELSE /\ RunCronFails
             /\ UNCHANGED schedRunning
    /\ UNCHANGED <<cronOf, toAdd, added, sendCount, sendResult, clock,
                   inflight, lastRet, taskErrLogged>>

\* start() that logs a failed send and returns Ok(()) all the same.
TelegramSendSwallows ==
    /\ pc = "send"
    /\ \E res \in {"Ok", "Err"} :
        /\ sendCount' = sendCount + 1
        /\ sendResult' = res
        /\ startLog' = IF res = "Err" THEN startLog \cup {"telegram"}
                       ELSE startLog
        /\ startResult' = "Ok"
        /\ pc' = "done"
    /\ UNCHANGED <<cronOf, toAdd, added, schedRunning, runCron, clock,
                   inflight, lastRet, taskErrLogged>>

\* bot::telegram::send(&msg).await.map_err(..): the value of start.
TelegramSend ==
    /\ pc = "send"
    /\ \E res \in {"Ok", "Err"} :
        /\ sendCount' = sendCount + 1
        /\ sendResult' = res
        /\ startLog' = IF res = "Err" THEN startLog \cup {"telegram"}
                       ELSE startLog
        /\ startResult' = res
        /\ pc' = "done"
    /\ UNCHANGED <<cronOf, toAdd, added, schedRunning, runCron, clock,
                   inflight, lastRet, taskErrLogged>>

----------------------------------------------------------------------------
(* scheduler.rs: dispatch of the jobs and the wrapper of create_job *)

DueJobs(t) == {j \in added : Due(j, t)}

\* A dispatch that skips a due job whose previous invocation still runs.
TickSkipRunning ==
    /\ schedRunning
    /\ LET t == Instants[NextClock(clock)]
       IN inflight' = [j \in Jobs |->
                         IF j \in DueJobs(t) /\ inflight[j] = 0 THEN 1
                         ELSE inflight[j]]
    /\ clock' = NextClock(clock)
    /\ UNCHANGED <<cronOf, pc, toAdd, added, schedRunning, runCron,
                   startResult, sendCount, sendResult, startLog, lastRet,
                   taskErrLogged>>

\* A dispatch that runs the due jobs one after the other: a due job is
\* started only when no other job is in flight, and one per tick.
TickSerial ==
    /\ schedRunning
    /\ LET t == Instants[NextClock(clock)]
           free == \A k \in Jobs : inflight[k] = 0
           first == IF DueJobs(t) = {} THEN {}
                    ELSE {CHOOSE j \in DueJobs(t) : TRUE}
       IN inflight' = [j \in Jobs |->
                         IF j \in first /\ free THEN inflight[j] + 1
                         ELSE inflight[j]]
    /\ clock' = NextClock(clock)
    /\ UNCHANGED <<cronOf, pc, toAdd, added, schedRunning, runCron,
                   startResult, sendCount, sendResult, startLog, lastRet,
                   taskErrLogged>>

\* One tick of the dispatch loop started by sched.start(): the closure of
\* every added job that is due is called and its future spawned as a task of
\* its own.  The closure (create_job) keeps no state between calls.
Tick ==
    /\ schedRunning
    /\ LET t == Instants[NextClock(clock)]
       IN /\ \A j \in DueJobs(t) : inflight[j] < MaxInFlight
          /\ inflight' = [j \in Jobs |->
                            IF j \in DueJobs(t) THEN inflight[j] + 1
                            ELSE inflight[j]]
    /\ clock' = NextClock(clock)
    /\ UNCHANGED <<cronOf, pc, toAdd, added, schedRunning, runCron,
                   startResult, sendCount, sendResult, startLog, lastRet,
                   taskErrLogged>>

\* A wrapper that hands the task's Err on instead of logging it: the
\* dispatch loop ends with it.
TaskFinishPropagates(j) ==
    /\ inflight[j] > 0
    /\ \E res \in TaskResults(j) :
        /\ lastRet' = <<j, res>>
        /\ schedRunning' = (schedRunning /\ res = "Ok")
    /\ inflight' = [inflight EXCEPT ![j] = @ - 1]
    /\ UNCHANGED <<cronOf, pc, toAdd, added, runCron, startResult, sendCount,
                   sendResult, startLog, clock, taskErrLogged>>

\* The wrapper's future: task().await returned res; an Err is logged and
\* the future ends either way.
TaskFinish(j) ==
    /\ inflight[j] > 0
    /\ \E res \in TaskResults(j) :
        /\ res = "Err" => taskErrLogged < MaxLog
        /\ taskErrLogged' = IF res = "Err" THEN taskErrLogged + 1
                            ELSE taskErrLogged
        /\ lastRet' = <<j, res>>
    /\ inflight' = [inflight EXCEPT ![j] = @ - 1]
    /\ UNCHANGED <<cronOf, pc, toAdd, added, schedRunning, runCron,
                   startResult, sendCount, sendResult, startLog, clock>>

----------------------------------------------------------------------------
(* backfill/dividend.rs: data *)

\* The year execute passes to both workflows.
Year == 2023
\* thread::sleep(Duration::from_secs(90)).
SleepSecs == 90
\* The delay the doc comment of processing_without_or_multiple states.
DocSleepSecs == 6

CodeNames == <<"2330", "2317", "1101", "1216">>
Codes == {CodeNames[i] : i \in 1..MaxCand}

\* Dates as the sources and the table hold them; "" is a date not announced.
ExA == "2023-06-15"
ExB == "2023-06-16"
PayA == "2023-07-20"
PayB == "2023-07-21"

Dates(e1, e2, p1, p2) ==
    [ex_dividend_date1 |-> e1, ex_dividend_date2 |-> e2,
     payable_date1 |-> p1, payable_date2 |-> p2]

\* The identity of a dividend row.
Key(code, yod, q) == <<code, yod, q>>

\* The tables the job may find: one row per security code for the second
\* quarter of Year, its first dates announced or not.
InitTables ==
    {[k \in {Key(c, Year, "Q2") : c \in Codes} |-> d]
        : d \in {Dates("", "", "", ""), Dates(ExA, "", PayA, "")}}

\* A row of the table as the entity the queries return.
Entity(k, d) ==
    [security_code |-> k[1], year_of_dividend |-> k[2], quarter |-> k[3],
     ex_dividend_date1 |-> d.ex_dividend_date1,
     ex_dividend_date2 |-> d.ex_dividend_date2,
     payable_date1 |-> d.payable_date1,
     payable_date2 |-> d.payable_date2]

DatesOf(e) ==
    Dates(e.ex_dividend_date1, e.ex_dividend_date2, e.payable_date1,
          e.payable_date2)

\* A detail of a fetched result: `year` is the year it is filed under.
Detail(code, y, yod, q, d) ==
    [security_code |-> code, year |-> y, year_of_dividend |-> yod,
     quarter |-> q,
     ex_dividend_date1 |-> d.ex_dividend_date1,
     ex_dividend_date2 |-> d.ex_dividend_date2,
     payable_date1 |-> d.payable_date1,
     payable_date2 |-> d.payable_date2]

\* The first n security codes, in the order of CodeNames.
CodePrefix(n) == [i \in 1..n |-> CodeNames[i]]

\* What goodinfo::dividend::visit(code) may return in Ok: a map from year to
\* details.  Nothing for Year; one detail for Year; a detail of another year
\* filed under Year followed by two of Year.
GoodinfoResponses(code) ==
    { [y \in {Year - 1} |->
          <<Detail(code, Year - 1, Year - 1, "Q4", Dates(ExA, "", PayA, ""))>>],
      [y \in {Year} |->
          <<Detail(code, Year, Year, "Q2", Dates(ExA, "", PayA, ""))>>],
      [y \in {Year} |->
          <<Detail(code, Year - 1, Year - 1, "Q4", Dates(ExA, "", PayA, "")),
            Detail(code, Year, Year, "Q1", Dates(ExB, "", PayB, "")),
            Detail(code, Year, Year, "Q2", Dates(ExA, "", PayA, ""))>>] }

OtherEx(d) == IF d = ExA THEN ExB ELSE ExA
OtherPay(d) == IF d = PayA THEN PayB ELSE PayA

\* What yahoo::dividend::visit(code) may return in Ok for entity e: nothing
\* for Year; e's own values; e's identity with a new ex-dividend date; e's
\* identity with a new ex-dividend date and a new payable date; e's identity
\* with only a new payable date; another quarter's detail with new dates
\* followed by e's identity with a new ex-dividend date and no other date.
YahooResponses(e) ==
    LET c == e.security_code
        yod == e.year_of_dividend
        q == e.quarter
        same == DatesOf(e)
        newEx == Dates(OtherEx(e.ex_dividend_date1), e.ex_dividend_date2,
                       OtherPay(e.payable_date1), e.payable_date2)
        newPay == Dates(e.ex_dividend_date1, e.ex_dividend_date2,
                        OtherPay(e.payable_date1), e.payable_date2)
        newExOnly == Dates(OtherEx(e.ex_dividend_date1), "", "", "")
    IN { [y \in {Year - 1} |-> <<Detail(c, Year - 1, Year - 1, q, newEx)>>],
         [y \in {Year} |-> <<Detail(c, Year, yod, q, same)>>],
         [y \in {Year} |-> <<Detail(c, Year, yod, q, newEx)>>],
         [y \in {Year} |-> <<Detail(c, Year, yod, q, newPay)>>],
         [y \in {Year} |-> <<Detail(c, Year, yod, "Q4", newEx),
                             Detail(c, Year, yod, q, newExOnly)>>] }

\* dividends.get(&year): the details filed under Year, none as <<>>.
GetYear(map) == IF Year \in DOMAIN map THEN map[Year] ELSE <<>>

\* The inner loop without its filter on the year.
CurrentYearUnfiltered(d) == d.year \in {Year - 1, Year}

\* The inner loop's filter: `if dividend.year != year { continue; }`.
CurrentYear(d) == d.year = Year
CurrentYearDetails(details) == SelectSeq(details, CurrentYear)

\* The find matching on a difference in any of the four dates.
DiffersAnyDate(detail, e) ==
    /\ detail.year_of_dividend = e.year_of_dividend
    /\ detail.quarter = e.quarter
    /\ \/ detail.ex_dividend_date1 # e.ex_dividend_date1
       \/ detail.ex_dividend_date2 # e.ex_dividend_date2
       \/ detail.payable_date1 # e.payable_date1
       \/ detail.payable_date2 # e.payable_date2

\* The find matching on the identity only, whatever the dates.
DiffersIdentityOnly(detail, e) ==
    /\ detail.year_of_dividend = e.year_of_dividend
    /\ detail.quarter = e.quarter

\* The predicate of the find in the second workflow.
Differs(detail, e) ==
    /\ detail.year_of_dividend = e.year_of_dividend
    /\ detail.quarter = e.quarter
    /\ \/ detail.ex_dividend_date1 # e.ex_dividend_date1
       \/ detail.ex_dividend_date2 # e.ex_dividend_date2

\* iter().find(..): the index of the first detail that differs, 0 for None.
FindDiffering(details, e) ==
    IF \E i \in DOMAIN details : Differs(details[i], e)
    THEN CHOOSE i \in DOMAIN details :
            /\ Differs(details[i], e)
            /\ \A k \in 1..(i - 1) : ~Differs(details[k], e)
    ELSE 0

\* The entity keeping its own date where the detail's is blank.
OverwriteMerge(e, detail) ==
    [e EXCEPT !.ex_dividend_date1 =
                 IF detail.ex_dividend_date1 = "" THEN @
                 ELSE detail.ex_dividend_date1,
              !.ex_dividend_date2 =
                 IF detail.ex_dividend_date2 = "" THEN @
                 ELSE detail.ex_dividend_date2,
              !.payable_date1 =
                 IF detail.payable_date1 = "" THEN @
                 ELSE detail.payable_date1,
              !.payable_date2 =
                 IF detail.payable_date2 = "" THEN @
                 ELSE detail.payable_date2]

\* The entity with its four dates overwritten by the detail's.
Overwrite(e, detail) ==
    [e EXCEPT !.ex_dividend_date1 = detail.ex_dividend_date1,
              !.ex_dividend_date2 = detail.ex_dividend_date2,
              !.payable_date1 = detail.payable_date1,
              !.payable_date2 = detail.payable_date2]

\* The table after a write of entity e succeeded: its row inserted or
\* replaced.
Written(table, e) ==
    LET k == Key(e.security_code, e.year_of_dividend, e.quarter)
    IN [x \in DOMAIN table \cup {k} |-> IF x = k THEN DatesOf(e) ELSE table[x]]

\* A write call, as recorded.
WriteCall(w, i, e, res) ==
    [wf |-> w, cand |-> i,
     key |-> Key(e.security_code, e.year_of_dividend, e.quarter),
     dates |-> DatesOf(e), res |-> res]

\* thread::sleep blocks the thread: the time after it.
ThreadSleepDoc(t) == t + DocSleepSecs
ThreadSleep(t) == t + SleepSecs

----------------------------------------------------------------------------
(* backfill/dividend.rs: execute and its two workflows.  tokio::join! polls *)
(* both futures on the task of execute: each action below is what one      *)
(* future does from the return of the call it awaited to its next await.   *)

InitDiv ==
    /\ now = 0
    /\ stored \in InitTables
    /\ pc1 = "select"
    /\ cands1 = <<>>
    /\ idx1 = 0
    /\ got1 = <<>>
    /\ pend1 = <<>>
    /\ res1 = "none"
    /\ starts1 = <<>>
    /\ pc2 = "select"
    /\ cands2 = <<>>
    /\ idx2 = 0
    /\ got2 = <<>>
    /\ ent2 = <<>>
    /\ res2 = "none"
    /\ starts2 = <<>>
    /\ fetchFailed = {}
    /\ writes = {}
    /\ divLog = {}
    /\ execResult = "none"

\* The for loop of the first workflow goes to its next symbol at time t and
\* calls visit, or ends and the function returns Ok(()).
W1NextCandidate(list, t) ==
    IF idx1 + 1 > Len(list)
    THEN /\ pc1' = "done"
         /\ res1' = "Ok"
         /\ UNCHANGED <<idx1, starts1>>
    ELSE /\ pc1' = "visit"
         /\ idx1' = idx1 + 1
         /\ starts1' = Append(starts1, t)
         /\ UNCHANGED res1

\* dividend::fetch_without_or_multiple(year).await? returned.
W1Select ==
    /\ pc1 = "select"
    /\ \/ /\ pc1' = "done"
          /\ res1' = "Err"
          /\ UNCHANGED <<cands1, idx1, starts1>>
       \/ \E n \in 0..(MaxCand - Len(cands2)) :
            /\ cands1' = CodePrefix(n)
            /\ W1NextCandidate(CodePrefix(n), now)
    /\ UNCHANGED <<now, stored, got1, pend1, pc2, cands2, idx2, got2, ent2,
                   res2, starts2, fetchFailed, writes, divLog, execResult>>

\* A visit error handled the way the second workflow handles it: logged,
\* and the loop goes on.
W1VisitErrSkips ==
    /\ fetchFailed' = fetchFailed \cup {<<1, idx1>>}
    /\ divLog' = divLog \cup {<<"visit failed", 1, idx1>>}
    /\ W1NextCandidate(cands1, now)
    /\ UNCHANGED <<now, got1, pend1>>

\* goodinfo::dividend::visit(&stock_symbol).await? returned Err: the `?`
\* returns it from the function.
W1VisitErr ==
    /\ fetchFailed' = fetchFailed \cup {<<1, idx1>>}
    /\ pc1' = "done"
    /\ res1' = "Err"
    /\ UNCHANGED <<now, idx1, starts1, got1, pend1, divLog>>

\* The visit returned Ok(map) and the future calls thread::sleep.
W1VisitOk(map) ==
    /\ pc1' = "sleep"
    /\ got1' = <<map>>
    /\ UNCHANGED <<now, idx1, res1, starts1, pend1, fetchFailed, divLog>>

W1Visit ==
    /\ pc1 = "visit"
    /\ \/ W1VisitErr
       \/ \E map \in GoodinfoResponses(cands1[idx1]) : W1VisitOk(map)
    /\ UNCHANGED <<stored, cands1, pc2, cands2, idx2, got2, ent2, res2, starts2,
                   writes, execResult>>

\* thread::sleep does not yield: it blocks the thread that polls the task of
\* execute, so neither future of the join is polled until it returns.
ThreadBlocked == pc1 = "sleep"

\* The upserts handed to tasks of their own instead of awaited: the loop
\* goes to its next symbol with the details still to write.
W1WakeSpawnsUpserts ==
    /\ pc1 = "sleep"
    /\ now' = ThreadSleep(now)
    /\ got1' = <<>>
    /\ pend1' = CurrentYearDetails(GetYear(got1[1]))
    /\ W1NextCandidate(cands1, ThreadSleep(now))
    /\ UNCHANGED <<stored, cands1, pc2, cands2, idx2, got2, ent2, res2,
                   starts2, fetchFailed, writes, divLog, execResult>>

\* The loop leaving out the details whose row the table already holds with
\* the same dates.
W1WakeSkipsUnchanged ==
    /\ pc1 = "sleep"
    /\ now' = ThreadSleep(now)
    /\ got1' = <<>>
    /\ pend1' = SelectSeq(CurrentYearDetails(GetYear(got1[1])),
                          LAMBDA d :
                            ~(/\ Key(d.security_code, d.year_of_dividend,
                                     d.quarter) \in DOMAIN stored
                              /\ stored[Key(d.security_code,
                                            d.year_of_dividend, d.quarter)]
                                   = DatesOf(d)))
    /\ IF pend1' = <<>>
       THEN W1NextCandidate(cands1, ThreadSleep(now))
       ELSE /\ pc1' = "upsert"
            /\ UNCHANGED <<idx1, res1, starts1>>
    /\ UNCHANGED <<stored, cands1, pc2, cands2, idx2, got2, ent2, res2,
                   starts2, fetchFailed, writes, divLog, execResult>>

\* thread::sleep returned: dividends.get(&year) and the filter on the year
\* give the details to upsert, and upsert is called for the first; with none
\* the loop goes on.
W1Wake ==
    /\ pc1 = "sleep"
    /\ now' = ThreadSleep(now)
    /\ got1' = <<>>
    /\ pend1' = CurrentYearDetails(GetYear(got1[1]))
    /\ IF pend1' = <<>>
       THEN W1NextCandidate(cands1, ThreadSleep(now))
       ELSE /\ pc1' = "upsert"
            /\ UNCHANGED <<idx1, res1, starts1>>
    /\ UNCHANGED <<stored, cands1, pc2, cands2, idx2, got2, ent2, res2,
                   starts2, fetchFailed, writes, divLog, execResult>>

\* The upsert awaited with `?`: an Err ends the function with it.
W1UpsertPropagates ==
    /\ pc1 = "upsert"
    /\ LET e == Head(pend1)
       IN \E res \in {"Ok", "Err"} :
            /\ writes' = writes \cup {WriteCall(1, idx1, e, res)}
            /\ stored' = IF res = "Ok" THEN Written(stored, e) ELSE stored
            /\ divLog' = IF res = "Ok"
                         THEN divLog \cup {<<"upsert ok", 1, idx1>>}
                         ELSE divLog
            /\ pend1' = Tail(pend1)
            /\ IF res = "Err"
               THEN /\ pc1' = "done"
                    /\ res1' = "Err"
                    /\ UNCHANGED <<idx1, starts1>>
               ELSE IF Tail(pend1) = <<>>
                    THEN W1NextCandidate(cands1, now)
                    ELSE UNCHANGED <<pc1, idx1, res1, starts1>>
    /\ UNCHANGED <<now, cands1, got1, pc2, cands2, idx2, got2, ent2, res2,
                   starts2, fetchFailed, execResult>>

\* entity.upsert().await returned: either way a line is logged and the inner
\* loop goes on.
W1Upsert ==
    /\ pc1 = "upsert"
    /\ LET e == Head(pend1)
       IN \E res \in {"Ok", "Err"} :
            /\ writes' = writes \cup {WriteCall(1, idx1, e, res)}
            /\ stored' = IF res = "Ok" THEN Written(stored, e) ELSE stored
            /\ divLog' = divLog \cup
                 {<<IF res = "Ok" THEN "upsert ok" ELSE "upsert failed",
                    1, idx1>>}
    /\ pend1' = Tail(pend1)
    /\ IF Tail(pend1) = <<>>
       THEN W1NextCandidate(cands1, now)
       ELSE UNCHANGED <<pc1, idx1, res1, starts1>>
    /\ UNCHANGED <<now, cands1, got1, pc2, cands2, idx2, got2, ent2, res2,
                   starts2, fetchFailed, execResult>>

\* The for loop of the second workflow goes to its next entity at time t
\* and calls visit, or ends and the function returns Ok(()).
W2NextCandidate(list, t) ==
    IF idx2 + 1 > Len(list)
    THEN /\ pc2' = "done"
         /\ res2' = "Ok"
         /\ UNCHANGED <<idx2, starts2>>
    ELSE /\ pc2' = "visit"
         /\ idx2' = idx2 + 1
         /\ starts2' = Append(starts2, t)
         /\ UNCHANGED res2

\* Dividend::fetch_unpublished_dividends_for_year(year).await? returned.
\* The rows it selects are rows of the table.
W2Select ==
    /\ pc2 = "select"
    /\ ~ThreadBlocked
    /\ \/ /\ pc2' = "done"
          /\ res2' = "Err"
          /\ UNCHANGED <<cands2, idx2, starts2>>
       \/ \E n \in 0..(MaxCand - Len(cands1)) :
            LET list == [i \in 1..n |->
                            Entity(Key(CodeNames[i], Year, "Q2"),
                                   stored[Key(CodeNames[i], Year, "Q2")])]
            IN /\ cands2' = list
               /\ W2NextCandidate(list, now)
    /\ UNCHANGED <<now, stored, pc1, cands1, idx1, got1, pend1, res1, starts1,
                   got2, ent2, fetchFailed, writes, divLog, execResult>>

\* A visit error handed on with `?`, the way the first workflow does.
W2VisitErrPropagates ==
    /\ fetchFailed' = fetchFailed \cup {<<2, idx2>>}
    /\ pc2' = "done"
    /\ res2' = "Err"
    /\ UNCHANGED <<idx2, starts2, got2, ent2, divLog>>

\* yahoo::dividend::visit(&entity.security_code).await returned Err: it is
\* logged and the loop continues.
W2VisitErr ==
    /\ fetchFailed' = fetchFailed \cup {<<2, idx2>>}
    /\ divLog' = divLog \cup {<<"visit failed", 2, idx2>>}
    /\ W2NextCandidate(cands2, now)
    /\ UNCHANGED <<got2, ent2>>

\* The visit returned Ok(yahoo): the details of Year are searched for the
\* entity's year and quarter with other ex-dividend dates; if one is found
\* the entity takes its dates and update_dividend_date is called.
W2VisitOk(map) ==
    LET e == cands2[idx2]
        details == GetYear(map)
        i == FindDiffering(details, e)
    IN /\ got2' = <<[cand |-> idx2, map |-> map]>>
       /\ IF i = 0
          THEN /\ W2NextCandidate(cands2, now)
               /\ UNCHANGED ent2
          ELSE /\ ent2' = Overwrite(e, details[i])
               /\ pc2' = "update"
               /\ UNCHANGED <<idx2, res2, starts2>>
       /\ UNCHANGED <<fetchFailed, divLog>>

W2Visit ==
    /\ pc2 = "visit"
    /\ ~ThreadBlocked
    /\ \/ W2VisitErr
       \/ \E map \in YahooResponses(cands2[idx2]) : W2VisitOk(map)
    /\ UNCHANGED <<now, stored, pc1, cands1, idx1, got1, pend1, res1, starts1,
                   cands2, writes, execResult>>

\* entity.update_dividend_date().await returned: a line is logged either
\* way and the loop goes on.
W2Update ==
    /\ pc2 = "update"
    /\ ~ThreadBlocked
    /\ \E res \in {"Ok", "Err"} :
        /\ writes' = writes \cup {WriteCall(2, idx2, ent2, res)}
        /\ stored' = IF res = "Ok" THEN Written(stored, ent2) ELSE stored
        /\ divLog' = divLog \cup
             {<<IF res = "Ok" THEN "update ok" ELSE "update failed",
                2, idx2>>}
    /\ ent2' = <<>>
    /\ W2NextCandidate(cands2, now)
    /\ UNCHANGED <<now, pc1, cands1, idx1, got1, pend1, res1, starts1, cands2,
                   got2, fetchFailed, execResult>>

\* Time passes while a call of either workflow is awaited (the time of a
\* thread::sleep passes in W1Wake).
Elapse ==
    /\ pc1 # "done" \/ pc2 # "done"
    /\ ~ThreadBlocked
    /\ now + Quantum <= MaxNow
    /\ now' = now + Quantum
    /\ UNCHANGED <<stored, pc1, cands1, idx1, got1, pend1, res1, starts1, pc2,
                   cands2, idx2, got2, ent2, res2, starts2, fetchFailed,
                   writes, divLog, execResult>>

\* execute handing a workflow's error on to its caller instead of logging
\* it.
ExecuteFinishPropagates ==
    /\ pc1 = "done"
    /\ pc2 = "done"
    /\ execResult = "none"
    /\ divLog' = divLog \cup
         {<<"workflow ok", w, 0>> : w \in {x \in {1, 2} :
                (IF x = 1 THEN res1 ELSE res2) = "Ok"}}
    /\ execResult' = IF res1 = "Err" \/ res2 = "Err" THEN "Err" ELSE "Ok"
    /\ UNCHANGED <<now, stored, pc1, cands1, idx1, got1, pend1, res1, starts1,
                   pc2, cands2, idx2, got2, ent2, res2, starts2, fetchFailed,
                   writes>>

\* The join as tokio::try_join! would do it: execute goes on as soon as one
\* workflow has returned Err, the other one not through.
ExecuteFinishTryJoin ==
    /\ \/ pc1 = "done" /\ pc2 = "done"
       \/ pc1 = "done" /\ res1 = "Err"
       \/ pc2 = "done" /\ res2 = "Err"
    /\ execResult = "none"
    /\ divLog' = divLog \cup
         {<<IF res1 = "Ok" THEN "workflow ok" ELSE "workflow failed", 1, 0>>,
          <<IF res2 = "Ok" THEN "workflow ok" ELSE "workflow failed", 2, 0>>}
    /\ execResult' = "Ok"
    /\ UNCHANGED <<now, stored, pc1, cands1, idx1, got1, pend1, res1, starts1,
                   pc2, cands2, idx2, got2, ent2, res2, starts2, fetchFailed,
                   writes>>

\* tokio::join! is through: execute logs both results and returns Ok(()).
ExecuteFinish ==
    /\ pc1 = "done"
    /\ pc2 = "done"
    /\ execResult = "none"
    /\ divLog' = divLog \cup
         {<<IF res1 = "Ok" THEN "workflow ok" ELSE "workflow failed", 1, 0>>,
          <<IF res2 = "Ok" THEN "workflow ok" ELSE "workflow failed", 2, 0>>}
    /\ execResult' = "Ok"
    /\ UNCHANGED <<now, stored, pc1, cands1, idx1, got1, pend1, res1, starts1,
                   pc2, cands2, idx2, got2, ent2, res2, starts2, fetchFailed,
                   writes>>

\* No invocation of execute is stepping.
DividendIdle ==
    /\ now = 0
    /\ stored = [k \in {} |-> 0]
    /\ pc1 = "done" /\ cands1 = <<>> /\ idx1 = 0 /\ got1 = <<>>
    /\ pend1 = <<>>
    /\ res1 = "none" /\ starts1 = <<>>
    /\ pc2 = "done" /\ cands2 = <<>> /\ idx2 = 0 /\ got2 = <<>>
    /\ ent2 = <<>>
    /\ res2 = "none" /\ starts2 = <<>>
    /\ fetchFailed = {} /\ writes = {} /\ divLog = {}
    /\ execResult = "idle"

\* start() has not been called.
SchedIdle ==
    /\ InitSched
    /\ cronOf = CronTable

----------------------------------------------------------------------------
(* database/table/revenue.rs and daily_money_history.rs: the two tables as *)
(* sets of rows, the statements the upserts send, and the transaction a    *)
(* caller of DailyMoneyHistory::upsert may hand in.                        *)

\* The values a Revenue record may carry.  `monthly` stands for the columns
\* "Monthly" .. "AccumulatedComparedWithLastYear", `avg_price` for avg_price,
\* lowest_price and highest_price.
RevKeys == {<<"2330", 202306>>, <<"2330", 202307>>}
RevData == {[monthly |-> 10, avg_price |-> 5], [monthly |-> 20, avg_price |-> 6]}

\* The Revenue records upsert may be called on.
RevRecords ==
    {[security_code |-> k[1], date |-> k[2], monthly |-> x.monthly,
      avg_price |-> x.avg_price] : k \in RevKeys, x \in RevData}

\* The rows of the table that conflict with record r on
\* ("SecurityCode", "Date").
RevConflicts(table, r) ==
    {row \in table : row.security_code = r.security_code /\ row.date = r.date}

\* The statement of Revenue::upsert with no conflict clause: always a new
\* row.
RevenueInsertOnly(table, r, t) ==
    table \cup {[security_code |-> r.security_code, date |-> r.date,
                 monthly |-> r.monthly, avg_price |-> r.avg_price,
                 create_time |-> t]}

\* The statement with a conflict clause that sets "Monthly" and the columns
\* listed with it but not the three price columns.
RevenueUpsertStalePrices(table, r, t) ==
    IF RevConflicts(table, r) = {}
    THEN table \cup {[security_code |-> r.security_code, date |-> r.date,
                      monthly |-> r.monthly, avg_price |-> r.avg_price,
                      create_time |-> t]}
    ELSE {IF row \in RevConflicts(table, r)
          THEN [row EXCEPT !.monthly = r.monthly]
          ELSE row : row \in table}

\* The table after the statement of Revenue::upsert ran for record r at time
\* t: insert, the row's create_time the table's default; on conflict on
\* ("SecurityCode", "Date") every other bound column is set from the record.
RevenueUpsert(table, r, t) ==
    IF RevConflicts(table, r) = {}
    THEN table \cup {[security_code |-> r.security_code, date |-> r.date,
                      monthly |-> r.monthly, avg_price |-> r.avg_price,
                      create_time |-> t]}
    ELSE {IF row \in RevConflicts(table, r)
          THEN [row EXCEPT !.monthly = r.monthly, !.avg_price = r.avg_price]
          ELSE row : row \in table}

\* The dates and the sums DailyMoneyHistory::upsert may be called with: the
\* statement computes `sum` and `eddie` from the quotes and the holdings.
DmhDates == {"2023-08-03", "2023-08-04"}
DmhSums == {[sum |-> 3, eddie |-> 1], [sum |-> 4, eddie |-> 2]}

\* The table after the statement of DailyMoneyHistory::upsert ran for the
\* date at time t with the sums v: insert, or on conflict on (date) sum,
\* eddie, unice and updated_time are set.
MoneyHistoryUpsert(table, date, v, t) ==
    IF \E row \in table : row.date = date
    THEN {IF row.date = date
          THEN [row EXCEPT !.sum = v.sum, !.eddie = v.eddie,
                           !.unice = v.sum - v.eddie, !.updated_time = t]
          ELSE row : row \in table}
    ELSE table \cup {[date |-> date, sum |-> v.sum, eddie |-> v.eddie,
                      unice |-> v.sum - v.eddie, updated_time |-> t]}

\* Statements sent so far, both tables together.
Statements == Len(revLog) + Len(dmhLog)

\* The transaction the caller holds, if any: "open", "failed" (a statement
\* of it failed), or "none".
TxState ==
    IF dmhTxs # <<>> /\ dmhTxs[Len(dmhTxs)] \in {"open", "failed"}
    THEN dmhTxs[Len(dmhTxs)]
    ELSE "none"

\* The upserts that ran in transaction n and succeeded, in order.
TxWrites(n) ==
    SelectSeq(dmhLog, LAMBDA c : c.tx = n /\ c.res = "Ok")

\* The table with the calls of a sequence applied in order.
RECURSIVE ApplyCalls(_, _)
ApplyCalls(table, calls) ==
    IF calls = <<>>
    THEN table
    ELSE ApplyCalls(MoneyHistoryUpsert(table, Head(calls).date,
                                       Head(calls).sums, Head(calls).at),
                    Tail(calls))

\* The rows the tables may hold before the first call: none, or one row
\* written at time 0.
RevRow0 ==
    [security_code |-> "2330", date |-> 202306, monthly |-> 10,
     avg_price |-> 5, create_time |-> 0]
DmhRow0 ==
    [date |-> "2023-08-04", sum |-> 3, eddie |-> 1, unice |-> 2,
     updated_time |-> 0]

InitStore ==
    /\ revTable \in {{}, {RevRow0}}
    /\ revLog = <<>>
    /\ dmhTable \in {{}, {DmhRow0}}
    /\ dmhLog = <<>>
    /\ dmhTxs = <<>>

\* Revenue::upsert(&self) returned: Ok after the statement ran, or Err
\* (no pool, or the statement failed) with the table as it was.
RevUpsert ==
    /\ Statements < MaxStmts
    /\ \E r \in RevRecords, res \in {"Ok", "Err"} :
         /\ revTable' = IF res = "Ok"
                        THEN RevenueUpsert(revTable, r, Statements + 1)
                        ELSE revTable
         /\ revLog' = Append(revLog, [rec |-> r, res |-> res])
    /\ UNCHANGED <<dmhTable, dmhLog, dmhTxs>>

\* database::get_tx(): the caller begins a transaction.
TxBegin ==
    /\ TxState = "none"
    /\ Statements < MaxStmts
    /\ Len(dmhTxs) < MaxTxs
    /\ dmhTxs' = Append(dmhTxs, "open")
    /\ UNCHANGED <<revTable, revLog, dmhTable, dmhLog>>

\* DailyMoneyHistory::upsert(date, &mut None) returned: the statement ran on
\* the connection, on its own.  A statement for a date the open transaction
\* wrote waits for that transaction.
DmhUpsertConn ==
    /\ Statements < MaxStmts
    /\ \E date \in DmhDates, v \in DmhSums, res \in {"Ok", "Err"} :
         /\ \A i \in DOMAIN TxWrites(Len(dmhTxs)) :
               TxState = "none" \/ TxWrites(Len(dmhTxs))[i].date # date
         /\ dmhTable' = IF res = "Ok"
                        THEN MoneyHistoryUpsert(dmhTable, date, v,
                                                Statements + 1)
                        ELSE dmhTable
         /\ dmhLog' = Append(dmhLog, [date |-> date, sums |-> v, tx |-> 0,
                                      res |-> res, at |-> Statements + 1])
    /\ UNCHANGED <<revTable, revLog, dmhTxs>>

\* The statement run on the connection although a transaction was handed
\* in.
DmhUpsertTxOnConnection ==
    /\ TxState = "open"
    /\ Statements < MaxStmts
    /\ \E date \in DmhDates, v \in DmhSums, res \in {"Ok", "Err"} :
         /\ dmhTable' = IF res = "Ok"
                        THEN MoneyHistoryUpsert(dmhTable, date, v,
                                                Statements + 1)
                        ELSE dmhTable
         /\ dmhLog' = Append(dmhLog, [date |-> date, sums |-> v,
                                      tx |-> Len(dmhTxs), res |-> res,
                                      at |-> Statements + 1])
         /\ dmhTxs' = IF res = "Ok" THEN dmhTxs
                      ELSE [dmhTxs EXCEPT ![Len(dmhTxs)] = "failed"]
    /\ UNCHANGED <<revTable, revLog>>

\* DailyMoneyHistory::upsert(date, &mut Some(tx)) returned: the statement
\* ran in the caller's transaction, which stays the caller's to end; a
\* statement that failed leaves the transaction failed.
DmhUpsertTx ==
    /\ TxState = "open"
    /\ Statements < MaxStmts
    /\ \E date \in DmhDates, v \in DmhSums, res \in {"Ok", "Err"} :
         /\ dmhLog' = Append(dmhLog, [date |-> date, sums |-> v,
                                      tx |-> Len(dmhTxs), res |-> res,
                                      at |-> Statements + 1])
         /\ dmhTxs' = IF res = "Ok" THEN dmhTxs
                      ELSE [dmhTxs EXCEPT ![Len(dmhTxs)] = "failed"]
    /\ UNCHANGED <<revTable, revLog, dmhTable>>

\* tx.commit() by the caller: the writes of the transaction reach the table.
TxCommit ==
    /\ TxState = "open"
    /\ dmhTable' = ApplyCalls(dmhTable, TxWrites(Len(dmhTxs)))
    /\ dmhTxs' = [dmhTxs EXCEPT ![Len(dmhTxs)] = "committed"]
    /\ UNCHANGED <<revTable, revLog, dmhLog>>

\* tx.rollback() by the caller: the writes of the transaction are dropped.
TxRollback ==
    /\ TxState \in {"open", "failed"}
    /\ dmhTxs' = [dmhTxs EXCEPT ![Len(dmhTxs)] = "rolledback"]
    /\ UNCHANGED <<revTable, revLog, dmhTable, dmhLog>>

\* No caller of the upserts is stepping.
StoreIdle ==
    /\ revTable = {}
    /\ revLog = <<>>
    /\ dmhTable = {}
    /\ dmhLog = <<>>
    /\ dmhTxs = <<>>

----------------------------------------------------------------------------
(* crawler/suspend_listing.rs: visit *)

\* The symbols CACHE_SHARE.stocks holds, and one it does not hold.
CachedSymbols == {"1101", "2330"}
UncachedSymbol == "9999"

\* A StockRecord of the cache.
StockRecord(symbol, name, suspended) ==
    [stock_symbol |-> symbol, name |-> name, suspend_listing |-> suspended]

\* The cache as CACHE_SHARE.load leaves it: every symbol is the key of its
\* own record.
InitStocks ==
    {[s \in CachedSymbols |-> StockRecord(s, "name", f[s])] :
        f \in [CachedSymbols -> BOOLEAN]}

\* Characters of a DelistingDate; WideChar stands for one of three bytes in
\* UTF-8.
DigitChars == <<"0", "1", "2", "3", "4", "5", "6", "7", "8", "9">>
WideChar == "W"

IsDigit(c) == \E d \in 1..Len(DigitChars) : DigitChars[d] = c

DigitVal(c) == (CHOOSE d \in 1..Len(DigitChars) : DigitChars[d] = c) - 1

Width(c) == IF c = WideChar THEN 3 ELSE 1

RECURSIVE Bytes(_)
Bytes(s) == IF s = <<>> THEN 0 ELSE Width(Head(s)) + Bytes(Tail(s))

\* delisting_date[..3]: the slice exists when the string has three bytes and
\* byte 3 is a character boundary; the code panics when it does not.
CanSlice3(s) == \E k \in 0..Len(s) : Bytes(SubSeq(s, 1, k)) = 3

Slice3(s) == SubSeq(s, 1, CHOOSE k \in 0..Len(s) : Bytes(SubSeq(s, 1, k)) = 3)

RECURSIVE DecVal(_)
DecVal(s) ==
    IF s = <<>> THEN 0
    ELSE DecVal(SubSeq(s, 1, Len(s) - 1)) * 10 + DigitVal(s[Len(s)])

\* str::parse::<i32>: an optional sign, then one digit or more.
ParseI32(s) ==
    LET signed == s # <<>> /\ s[1] \in {"+", "-"}
        body == IF signed THEN Tail(s) ELSE s
        ok == body # <<>> /\ \A i \in 1..Len(body) : IsDigit(body[i])
    IN  IF ~ok THEN [ok |-> FALSE, val |-> 0]
        ELSE [ok |-> TRUE,
              val |-> IF signed /\ s[1] = "-" THEN 0 - DecVal(body)
                      ELSE DecVal(body)]

\* The year from which a delisting is taken over.
MinYear == 110

\* Delisting dates of the feed (year of the Republic, month, day), and values
\* that are not such a date.
D112 == <<"1", "1", "2", "0", "5", "0", "1">>
D110 == <<"1", "1", "0", "0", "1", "0", "4">>
D109 == <<"1", "0", "9", "1", "2", "3", "1">>
DText == <<"N", "/", "A">>
DShort == <<>>
DWide == <<"1", "1", WideChar>>

SuspendListing(symbol, date) ==
    [stock_symbol |-> symbol, delisting_date |-> date]

\* Bodies the TWSE endpoint answers with.
Feeds ==
    { <<>>,
      <<SuspendListing("2330", D112), SuspendListing(UncachedSymbol, D112)>>,
      <<SuspendListing("1101", D109), SuspendListing("2330", DText),
        SuspendListing("1101", D110)>>,
      <<SuspendListing("1101", D112), SuspendListing("2330", D112)>>,
      <<SuspendListing("2330", D112), SuspendListing("1101", DShort)>>,
      <<SuspendListing("1101", DWide)>> }

\* One turn of the for loop over the feed: what it does with the item.
ScanItem(map, item) ==
    IF item.stock_symbol \notin DOMAIN map THEN [kind |-> "skip"]
    ELSE IF map[item.stock_symbol].suspend_listing THEN [kind |-> "skip"]
    ELSE IF ~CanSlice3(item.delisting_date) THEN [kind |-> "panic"]
    ELSE LET year == ParseI32(Slice3(item.delisting_date))
         IN  IF ~year.ok THEN [kind |-> "log"]
             ELSE IF year.val < MinYear THEN [kind |-> "skip"]
             ELSE [kind |-> "push",
                   rec |-> [map[item.stock_symbol]
                              EXCEPT !.suspend_listing = TRUE]]

\* HashMap::insert.
Insert(map, k, v) ==
    [x \in DOMAIN map \cup {k} |-> IF x = k THEN v ELSE map[x]]

\* stocks.extend(to_stocks): the variant before it keeps the given records
\* only.
RECURSIVE ExtendReplace(_, _)
ExtendReplace(map, recs) ==
    IF recs = <<>> THEN [x \in {} |-> 0]
    ELSE Insert(ExtendReplace(map, SubSeq(recs, 1, Len(recs) - 1)),
                recs[Len(recs)].stock_symbol, recs[Len(recs)])

\* stocks.extend(to_stocks), each record under its own stock_symbol.
RECURSIVE Extend(_, _)
Extend(map, recs) ==
    IF recs = <<>> THEN map
    ELSE Extend(Insert(map, Head(recs).stock_symbol, Head(recs)), Tail(recs))

\* The effect of StockRecord::update_suspend_listing on the stocks table.
SuspendFlagUpdated(db, rec) == db \cup {rec.stock_symbol}

InitSuspend ==
    /\ stocks \in InitStocks
    /\ dbSuspended = {s \in DOMAIN stocks : stocks[s].suspend_listing}
    /\ poisoned \in BOOLEAN
    /\ stocksLock = "none"
    /\ slPc = "idle"
    /\ slRuns = 0
    /\ delisting = <<>>
    /\ slAt = 1
    /\ items_to_update = <<>>
    /\ updated_stocks = <<>>
    /\ slLog = <<>>
    /\ slCalls = <<>>

\* The job is dispatched: visit() returns at once on a weekend.
SlStart ==
    /\ slPc \in {"idle", "done", "panicked"}
    /\ slRuns < MaxRuns
    /\ slRuns' = slRuns + 1
    /\ \E is_weekend \in BOOLEAN :
         slPc' = IF is_weekend THEN "done" ELSE "fetch"
    /\ delisting' = <<>>
    /\ slAt' = 1
    /\ items_to_update' = <<>>
    /\ updated_stocks' = <<>>
    /\ slLog' = <<>>
    /\ slCalls' = <<>>
    /\ UNCHANGED <<stocks, dbSuspended, poisoned, stocksLock>>

\* The variant before SlFetch goes on to the scan after a failed request, a
\* body being at hand.
SlFetchErrContinues ==
    /\ slPc = "fetch"
    /\ slCalls' = Append(slCalls, [call |-> "http", lock |-> stocksLock])
    /\ \E feed \in Feeds :
         /\ delisting' = feed
         /\ slPc' = "readlock"
         /\ \/ slLog' = slLog
            \/ slLog' = Append(slLog, "fetch")
    /\ UNCHANGED <<stocks, dbSuspended, poisoned, stocksLock, slRuns, slAt,
                   items_to_update, updated_stocks>>

\* request_get_use_json returns.
SlFetch ==
    /\ slPc = "fetch"
    /\ slCalls' = Append(slCalls, [call |-> "http", lock |-> stocksLock])
    /\ \/ \E feed \in Feeds :
            /\ delisting' = feed
            /\ slPc' = "readlock"
            /\ slLog' = slLog
       \/ /\ slLog' = Append(slLog, "fetch")
          /\ slPc' = "update"
          /\ delisting' = delisting
    /\ UNCHANGED <<stocks, dbSuspended, poisoned, stocksLock, slRuns, slAt,
                   items_to_update, updated_stocks>>

\* CACHE_SHARE.stocks.read().
SlReadLock ==
    /\ slPc = "readlock"
    /\ IF poisoned
       THEN /\ slLog' = Append(slLog, "lock")
            /\ slPc' = "update"
            /\ stocksLock' = stocksLock
       ELSE /\ stocksLock = "none"
            /\ stocksLock' = "read"
            /\ slPc' = "scan"
            /\ slLog' = slLog
    /\ UNCHANGED <<stocks, dbSuspended, poisoned, slRuns, delisting, slAt,
                   items_to_update, updated_stocks, slCalls>>

\* One turn of the loop over the feed, the read guard being held.  A panic
\* unwinds visit(), which drops the guard.
SlScan ==
    /\ slPc = "scan"
    /\ slAt <= Len(delisting)
    /\ LET did == ScanItem(stocks, delisting[slAt])
       IN  IF did.kind = "panic"
           THEN /\ slPc' = "panicked"
                /\ stocksLock' = "none"
                /\ UNCHANGED <<slAt, items_to_update, slLog>>
           ELSE /\ slAt' = slAt + 1
                /\ items_to_update' =
                     IF did.kind = "push"
                     THEN Append(items_to_update, did.rec)
                     ELSE items_to_update
                /\ slLog' = IF did.kind = "log" THEN Append(slLog, "date")
                            ELSE slLog
                /\ UNCHANGED <<slPc, stocksLock>>
    /\ UNCHANGED <<stocks, dbSuspended, poisoned, slRuns, delisting,
                   updated_stocks, slCalls>>

\* The variant before SlReadUnlock keeps the read guard alive after the
\* match.
SlReadUnlockKept ==
    /\ slPc = "scan"
    /\ slAt > Len(delisting)
    /\ slPc' = "update"
    /\ UNCHANGED <<stocks, dbSuspended, poisoned, stocksLock, slRuns,
                   delisting, slAt, items_to_update, updated_stocks, slLog,
                   slCalls>>

\* The end of the match statement: the read guard is dropped.
SlReadUnlock ==
    /\ slPc = "scan"
    /\ slAt > Len(delisting)
    /\ stocksLock' = "none"
    /\ slPc' = "update"
    /\ UNCHANGED <<stocks, dbSuspended, poisoned, slRuns, delisting, slAt,
                   items_to_update, updated_stocks, slLog, slCalls>>

\* The variant before SlUpdate keeps the clone whatever the update returned.
SlUpdatePushesAlways ==
    /\ slPc = "update"
    /\ items_to_update # <<>>
    /\ slCalls' = Append(slCalls, [call |-> "db", lock |-> stocksLock])
    /\ items_to_update' = Tail(items_to_update)
    /\ updated_stocks' = Append(updated_stocks, Head(items_to_update))
    /\ \/ /\ dbSuspended' = SuspendFlagUpdated(dbSuspended,
                                               Head(items_to_update))
          /\ slLog' = slLog
       \/ /\ slLog' = Append(slLog, "update")
          /\ UNCHANGED dbSuspended
    /\ UNCHANGED <<stocks, poisoned, stocksLock, slRuns, delisting, slAt,
                   slPc>>

\* item.update_suspend_listing() returns for the next item.
SlUpdate ==
    /\ slPc = "update"
    /\ items_to_update # <<>>
    /\ slCalls' = Append(slCalls, [call |-> "db", lock |-> stocksLock])
    /\ items_to_update' = Tail(items_to_update)
    /\ \/ /\ dbSuspended' = SuspendFlagUpdated(dbSuspended,
                                               Head(items_to_update))
          /\ updated_stocks' = Append(updated_stocks, Head(items_to_update))
          /\ slLog' = slLog
       \/ /\ slLog' = Append(slLog, "update")
          /\ UNCHANGED <<dbSuspended, updated_stocks>>
    /\ UNCHANGED <<stocks, poisoned, stocksLock, slRuns, delisting, slAt,
                   slPc>>

\* CACHE_SHARE.stocks.write(), after the loop over items_to_update.
SlWriteLock ==
    /\ slPc = "update"
    /\ items_to_update = <<>>
    /\ IF poisoned
       THEN /\ slPc' = "done"
            /\ stocksLock' = stocksLock
       ELSE /\ stocksLock = "none"
            /\ stocksLock' = "write"
            /\ slPc' = "extend"
    /\ UNCHANGED <<stocks, dbSuspended, poisoned, slRuns, delisting, slAt,
                   items_to_update, updated_stocks, slLog, slCalls>>

\* stocks.extend(to_stocks); the write guard is dropped and visit returns.
SlExtend ==
    /\ slPc = "extend"
    /\ stocks' = Extend(stocks, updated_stocks)
    /\ stocksLock' = "none"
    /\ slPc' = "done"
    /\ UNCHANGED <<dbSuspended, poisoned, slRuns, delisting, slAt,
                   items_to_update, updated_stocks, slLog, slCalls>>

\* Another job that observed a change of a stock rewrites its record in the
\* cache, under the write lock of its own.
OtherJobUpdate ==
    /\ stocksLock = "none"
    /\ \E s \in DOMAIN stocks :
         /\ stocks[s].name = "name"
         /\ stocks' = [stocks EXCEPT ![s].name = "renamed"]
    /\ UNCHANGED <<dbSuspended, poisoned, stocksLock, slPc, slRuns, delisting,
                   slAt, items_to_update, updated_stocks, slLog, slCalls>>

SuspendIdle ==
    /\ stocks = [s \in CachedSymbols |-> StockRecord(s, "name", FALSE)]
    /\ dbSuspended = {}
    /\ poisoned = FALSE
    /\ stocksLock = "none"
    /\ slPc = "idle"
    /\ slRuns = 0
    /\ delisting = <<>>
    /\ slAt = 1
    /\ items_to_update = <<>>
    /\ updated_stocks = <<>>
    /\ slLog = <<>>
    /\ slCalls = <<>>

----------------------------------------------------------------------------
(* scheduler.rs: the end-of-day quote job, and the TTL cache it clears *)

\* The calls the closure awaits, in the order of the source.
Steps == <<"quote", "fetch_count_by_date", "makeup_for_the_lack_daily_quotes",
           "calculate_moving_average", "rebuild", "estimate", "yield_rank",
           "calculate_money_history">>

\* The step whose result the closure inspects.
CountStep == 2

\* Values of daily_quote_count.
QuoteCounts == {0, 1}

\* Keys and values of the TTL cache, and the ttl its readers pass.
TtlKeys == {"k1", "k2"}
TtlValues == {"v1", "v2"}
TtlSecs == 60

\* Seconds by which the clock of the cache advances between two operations.
TtlAdvances == {30, 31}

\* put(key, value) at time t.
TtlPut(entries, k, v, t) ==
    [x \in DOMAIN entries \cup {k} |->
        IF x = k THEN [value |-> v, at |-> t] ELSE entries[x]]

\* get_or_none(key, ttl) with the age of the entry left out of account.
TtlGetIgnoringAge(entries, k, ttl, t) ==
    IF k \notin DOMAIN entries THEN {<<>>} ELSE {<<entries[k].value>>}

\* get_or_none(key, ttl) at time t: the results it may give, <<>> being
\* none.  The entry is given while its age is below ttl and not once it is
\* above; at the instant the ttl elapses either is possible.
TtlGet(entries, k, ttl, t) ==
    IF k \notin DOMAIN entries THEN {<<>>}
    ELSE IF t - entries[k].at < ttl THEN {<<entries[k].value>>}
    ELSE IF t - entries[k].at > ttl THEN {<<>>}
    ELSE {<<entries[k].value>>, <<>>}

\* clear_all() dropping only what has expired at time t.
TtlClearExpired(entries, t) ==
    [x \in {k \in DOMAIN entries : t - entries[k].at < TtlSecs} |->
        entries[x]]

\* clear_all(): TTL.clear().
TtlClear(entries, t) == [x \in {} |-> [value |-> "", at |-> 0]]

InitQuote ==
    /\ qAt = 0
    /\ qStarted = <<>>
    /\ qOk = <<>>
    /\ qRes = "none"
    /\ qClears = 0
    /\ ttlEntries = [x \in {} |-> [value |-> "", at |-> 0]]
    /\ ttlNow = 0
    /\ ttlPuts = 0
    /\ ttlRead = <<>>
    /\ ttlCleared = [x \in {} |-> 0]

\* The scheduler dispatches the closure: backfill::quote::execute is called.
ChainStart ==
    /\ qAt = 0
    /\ qRes = "none"
    /\ qAt' = 1
    /\ qStarted' = <<Steps[1]>>
    /\ UNCHANGED <<qOk, qRes, qClears, ttlEntries, ttlNow, ttlPuts, ttlRead,
                   ttlCleared>>

\* The variant before ChainStepErr goes on to the next call.
ChainStepErrIgnored ==
    /\ qAt \in 1..(Len(Steps) - 1)
    /\ qAt' = qAt + 1
    /\ qStarted' = Append(qStarted, Steps[qAt + 1])
    /\ UNCHANGED <<qOk, qRes, qClears, ttlEntries, ttlNow, ttlPuts, ttlRead,
                   ttlCleared>>

\* The awaited call returns Err: `?` returns it from the closure.
ChainStepErr ==
    /\ qAt \in 1..Len(Steps)
    /\ qAt' = 0
    /\ qRes' = "Err"
    /\ UNCHANGED <<qStarted, qOk, qClears, ttlEntries, ttlNow, ttlPuts,
                   ttlRead, ttlCleared>>

\* The awaited call, not the last, returns Ok: the next one is called, or
\* the closure returns Ok when no quote of the day is stored.
ChainStepOk ==
    /\ qAt \in 1..(Len(Steps) - 1)
    /\ qOk' = Append(qOk, Steps[qAt])
    /\ \E daily_quote_count \in QuoteCounts :
         IF qAt = CountStep /\ daily_quote_count = 0
         THEN /\ qAt' = 0
              /\ qRes' = "Ok"
              /\ qStarted' = qStarted
         ELSE /\ qAt' = qAt + 1
              /\ qStarted' = Append(qStarted, Steps[qAt + 1])
              /\ qRes' = qRes
    /\ UNCHANGED <<qClears, ttlEntries, ttlNow, ttlPuts, ttlRead, ttlCleared>>

\* calculate_money_history returns Ok: TTL.clear() and the closure returns.
ChainFinish ==
    /\ qAt = Len(Steps)
    /\ qOk' = Append(qOk, Steps[qAt])
    /\ ttlEntries' = TtlClear(ttlEntries, ttlNow)
    /\ ttlCleared' = [k \in DOMAIN ttlEntries |-> ttlEntries[k].at]
    /\ qClears' = qClears + 1
    /\ qAt' = 0
    /\ qRes' = "Ok"
    /\ UNCHANGED <<qStarted, ttlNow, ttlPuts, ttlRead>>

\* A user of the cache stores a computed value.
TtlPutCall ==
    /\ ttlPuts < MaxPuts
    /\ ttlPuts' = ttlPuts + 1
    /\ \E k \in TtlKeys, v \in TtlValues :
         /\ ttlEntries' = TtlPut(ttlEntries, k, v, ttlNow)
         /\ ttlCleared' = [x \in DOMAIN ttlCleared \ {k} |-> ttlCleared[x]]
    /\ UNCHANGED <<qAt, qStarted, qOk, qRes, qClears, ttlNow, ttlRead>>

\* A user of the cache reads a key.
TtlGetCall ==
    /\ \E k \in TtlKeys :
         \E r \in TtlGet(ttlEntries, k, TtlSecs, ttlNow) :
            ttlRead' = <<[key |-> k, at |-> ttlNow, res |-> r]>>
    /\ UNCHANGED <<qAt, qStarted, qOk, qRes, qClears, ttlEntries, ttlNow,
                   ttlPuts, ttlCleared>>

\* Time passes.
TtlElapse ==
    /\ \E d \in TtlAdvances :
         /\ ttlNow + d <= MaxTtlNow
         /\ ttlNow' = ttlNow + d
    /\ UNCHANGED <<qAt, qStarted, qOk, qRes, qClears, ttlEntries, ttlPuts,
                   ttlRead, ttlCleared>>

QuoteIdle ==
    /\ qAt = 0
    /\ qStarted = <<>>
    /\ qOk = <<>>
    /\ qRes = "none"
    /\ qClears = 0
    /\ ttlEntries = [x \in {} |-> [value |-> "", at |-> 0]]
    /\ ttlNow = 0
    /\ ttlPuts = 0
    /\ ttlRead = <<>>
    /\ ttlCleared = [x \in {} |-> 0]

\* Nothing but the scheduler and the dividend job is stepping.
----------------------------------------------------------------------------
(* logging/mod.rs: the channel of one log level and its writer task *)

\* Lengths, in bytes, of the messages sent.
MsgLens == {100, 2048}

\* The length of the time stamp "%F %X%.6f".
StampLen == 26

\* The length of `line` from which a batch is written though the channel
\* holds more.
LineCap == 2048

\* What writeln!(&mut line, "{} {}", now, msg) appends for a message.
LineBytes(m) == StampLen + 1 + m.len + 1

RECURSIVE LineLen(_)
LineLen(batch) ==
    IF batch = <<>> THEN 0 ELSE LineBytes(Head(batch)) + LineLen(Tail(batch))

\* What rotate.get_writer(now) gives: a writer, or none.
GetWriterResults == {"Some", "None"}

\* What writing a batch may come to: the writer there is or not, and the
\* results of writer.write(), w.write_all and w.flush.
WriteOutcomes ==
    [writer : GetWriterResults, lock : {"Ok", "Err"},
     write_all : {"Ok", "Err"}, flush : {"Ok", "Err"}]

\* The batch reached the file.
BatchWritten(o) ==
    o.writer = "Some" /\ o.lock = "Ok" /\ o.write_all = "Ok" /\ o.flush = "Ok"

\* The error_console lines the write of a batch prints.
ConsoleLines(o, batch) ==
    IF o.writer = "None" THEN <<>>
    ELSE IF o.lock = "Err" THEN <<[kind |-> "lock", batch |-> batch]>>
    ELSE (IF o.write_all = "Err"
          THEN <<[kind |-> "write_all", batch |-> batch]>> ELSE <<>>)
         \o (IF o.flush = "Err"
             THEN <<[kind |-> "flush", batch |-> batch]>> ELSE <<>>)

InitLog ==
    /\ logChan = <<>>
    /\ logLine = <<>>
    /\ logFile = <<>>
    /\ logConsole = <<>>
    /\ logSent = 0

\* Logger::send: the channel, whose receiver lives as long as the process,
\* accepts the message.
LogSend ==
    /\ logSent < MaxMsgs
    /\ logSent' = logSent + 1
    /\ \E n \in MsgLens :
         logChan' = Append(logChan, [id |-> logSent + 1, len |-> n])
    /\ UNCHANGED <<logLine, logFile, logConsole>>

\* One turn of the writer task's loop, from rx.recv() to the next: the
\* message is appended to `line`; the batch is written unless the channel
\* holds more and `line` is below LineCap.
LogRecv ==
    /\ logChan # <<>>
    /\ logChan' = Tail(logChan)
    /\ LET batch == Append(logLine, Head(logChan))
       IN  IF Tail(logChan) # <<>> /\ LineLen(batch) < LineCap
           THEN /\ logLine' = batch
                /\ UNCHANGED <<logFile, logConsole>>
           ELSE \E o \in WriteOutcomes :
                  /\ logFile' = IF BatchWritten(o) THEN logFile \o batch
                                ELSE logFile
                  /\ logConsole' = logConsole \o ConsoleLines(o, batch)
                  /\ logLine' = <<>>
    /\ UNCHANGED logSent

LogIdle ==
    /\ logChan = <<>>
    /\ logLine = <<>>
    /\ logFile = <<>>
    /\ logConsole = <<>>
    /\ logSent = 0

ExtIdle == StoreIdle /\ SuspendIdle /\ QuoteIdle /\ LogIdle

----------------------------------------------------------------------------
(* The specifications *)

\* The scheduler with the registry of the source, no dividend job stepping.
Init == InitSched /\ cronOf = CronTable /\ DividendIdle /\ ExtIdle

Next ==
    \/ SchedNew /\ UNCHANGED <<divVars, extVars>>
    \/ SchedAdd /\ UNCHANGED <<divVars, extVars>>
    \/ SchedStart /\ UNCHANGED <<divVars, extVars>>
    \/ TelegramSend /\ UNCHANGED <<divVars, extVars>>
    \/ Tick /\ UNCHANGED <<divVars, extVars>>
    \/ \E j \in Jobs : TaskFinish(j) /\ UNCHANGED <<divVars, extVars>>

Spec == Init /\ [][Next]_vars

\* The scheduler with any registry of CronTables.
InitCronInput ==
    InitSched /\ cronOf \in CronTables /\ DividendIdle /\ ExtIdle

SpecCronInput == InitCronInput /\ [][Next]_vars

\* One invocation of dividend::execute, the scheduler left as it is.
InitDividend == SchedIdle /\ InitDiv /\ ExtIdle

NextDividend ==
    \/ W1Select /\ UNCHANGED <<schedVars, extVars>>
    \/ W1Visit /\ UNCHANGED <<schedVars, extVars>>
    \/ W1Wake /\ UNCHANGED <<schedVars, extVars>>
    \/ W1Upsert /\ UNCHANGED <<schedVars, extVars>>
    \/ W2Select /\ UNCHANGED <<schedVars, extVars>>
    \/ W2Visit /\ UNCHANGED <<schedVars, extVars>>
    \/ W2Update /\ UNCHANGED <<schedVars, extVars>>
    \/ Elapse /\ UNCHANGED <<schedVars, extVars>>
    \/ ExecuteFinish /\ UNCHANGED <<schedVars, extVars>>

SpecDividend == InitDividend /\ [][NextDividend]_vars

\* The steps of the invocation other than the passing of time: a call that
\* returns, the thread waking from its sleep, execute returning.
DividendProgress ==
    /\ \/ W1Select
       \/ W1Visit
       \/ W1Wake
       \/ W1Upsert
       \/ W2Select
       \/ W2Visit
       \/ W2Update
       \/ ExecuteFinish
    /\ UNCHANGED <<schedVars, extVars>>

\* The same invocation, every external call returning and the runtime
\* polling the task of execute whenever it can go on.
SpecDividendFair == SpecDividend /\ WF_vars(DividendProgress)

\* Callers of Revenue::upsert and DailyMoneyHistory::upsert, the latter with
\* and without a transaction, the scheduler and the dividend job left as
\* they are.
InitStoreOnly ==
    /\ SchedIdle /\ DividendIdle /\ InitStore /\ SuspendIdle /\ QuoteIdle
    /\ LogIdle

NextStore ==
    \/ RevUpsert /\ UNCHANGED <<schedVars, divVars, slVars, quoteVars, logVars>>
    \/ TxBegin /\ UNCHANGED <<schedVars, divVars, slVars, quoteVars, logVars>>
    \/ DmhUpsertConn /\ UNCHANGED <<schedVars, divVars, slVars, quoteVars, logVars>>
    \/ DmhUpsertTx /\ UNCHANGED <<schedVars, divVars, slVars, quoteVars, logVars>>
    \/ TxCommit /\ UNCHANGED <<schedVars, divVars, slVars, quoteVars, logVars>>
    \/ TxRollback /\ UNCHANGED <<schedVars, divVars, slVars, quoteVars, logVars>>

SpecStore == InitStoreOnly /\ [][NextStore]_vars

\* Invocations of suspend_listing::visit, one after the other, and another
\* job writing to the cache, everything else left as it is.
InitSuspendOnly ==
    /\ SchedIdle /\ DividendIdle /\ StoreIdle /\ InitSuspend /\ QuoteIdle
    /\ LogIdle

NextSuspend ==
    \/ SlStart /\ UNCHANGED <<schedVars, divVars, storeVars, quoteVars, logVars>>
    \/ SlFetch /\ UNCHANGED <<schedVars, divVars, storeVars, quoteVars, logVars>>
    \/ SlReadLock /\ UNCHANGED <<schedVars, divVars, storeVars, quoteVars, logVars>>
    \/ SlScan /\ UNCHANGED <<schedVars, divVars, storeVars, quoteVars, logVars>>
    \/ SlReadUnlock /\ UNCHANGED <<schedVars, divVars, storeVars, quoteVars, logVars>>
    \/ SlUpdate /\ UNCHANGED <<schedVars, divVars, storeVars, quoteVars, logVars>>
    \/ SlWriteLock /\ UNCHANGED <<schedVars, divVars, storeVars, quoteVars, logVars>>
    \/ SlExtend /\ UNCHANGED <<schedVars, divVars, storeVars, quoteVars, logVars>>
    \/ OtherJobUpdate /\ UNCHANGED <<schedVars, divVars, storeVars, quoteVars, logVars>>

SpecSuspend == InitSuspendOnly /\ [][NextSuspend]_vars

\* One invocation of the quote job and the users of the TTL cache,
\* everything else left as it is.
InitQuoteOnly ==
    /\ SchedIdle /\ DividendIdle /\ StoreIdle /\ SuspendIdle /\ InitQuote
    /\ LogIdle

NextQuote ==
    \/ ChainStart /\ UNCHANGED <<schedVars, divVars, storeVars, slVars, logVars>>
    \/ ChainStepErr /\ UNCHANGED <<schedVars, divVars, storeVars, slVars, logVars>>
    \/ ChainStepOk /\ UNCHANGED <<schedVars, divVars, storeVars, slVars, logVars>>
    \/ ChainFinish /\ UNCHANGED <<schedVars, divVars, storeVars, slVars, logVars>>
    \/ TtlPutCall /\ UNCHANGED <<schedVars, divVars, storeVars, slVars, logVars>>
    \/ TtlGetCall /\ UNCHANGED <<schedVars, divVars, storeVars, slVars, logVars>>
    \/ TtlElapse /\ UNCHANGED <<schedVars, divVars, storeVars, slVars, logVars>>

SpecQuote == InitQuoteOnly /\ [][NextQuote]_vars

\* The senders of one log level and its writer task, everything else left
\* as it is.
InitLogOnly ==
    /\ SchedIdle /\ DividendIdle /\ StoreIdle /\ SuspendIdle /\ QuoteIdle
    /\ InitLog

NextLog ==
    \/ LogSend
         /\ UNCHANGED <<schedVars, divVars, storeVars, slVars, quoteVars>>
    \/ LogRecv
         /\ UNCHANGED <<schedVars, divVars, storeVars, slVars, quoteVars>>

SpecLog == InitLogOnly /\ [][NextLog]_vars

----------------------------------------------------------------------------
(* Properties of the scheduler, checked under Spec (C4: SpecCronInput) *)

\* The instant of the tick a step takes.
TickStep == clock' # clock
TickInstant == Instants[clock']

\* C1 (as stated): no job ever has two invocations running at once; a tick
\* that falls due while the job runs is skipped.
C1_AtMostOneInvocationPerJob == \A j \in Jobs : inflight[j] <= 1

\* C1 (amended): the wrapper keeps no running flag.  At every tick at which
\* an added job is due while a previous invocation of it is still running, a
\* further invocation is started: the tick is neither skipped nor queued.
C1_DueTickStartsRunningJobAgain ==
    [][TickStep =>
        \A j \in added :
            (Due(j, TickInstant) /\ inflight[j] > 0)
                => inflight'[j] = inflight[j] + 1]_vars

\* C1 witness: two invocations of the every-minute job run at once.
C1_Witness == inflight["free_dns"] = 2

\* C2: when a job's task returns Err the wrapper logs it and nothing else
\* happens: the dispatch loop keeps running, the registry and start()'s
\* result are untouched, no other job's invocations are affected; and at
\* every later tick every due job, the failed one included, is started.
C2_TaskErrorIsLoggedNotPropagated ==
    [][/\ \A j \in Jobs :
            (inflight'[j] < inflight[j] /\ lastRet' = <<j, "Err">>)
                => /\ taskErrLogged' = taskErrLogged + 1
                   /\ schedRunning' = schedRunning
                   /\ added' = added
                   /\ startResult' = startResult
                   /\ \A k \in Jobs \ {j} : inflight'[k] = inflight[k]
       /\ (schedRunning /\ taskErrLogged > 0) => schedRunning'
       /\ (TickStep /\ taskErrLogged > 0)
            => \A j \in added :
                 Due(j, TickInstant) => inflight'[j] = inflight[j] + 1]_vars

\* C2 witness: quarter's task failed and was logged; quarter and emerging
\* are both running again.
C2_Witness ==
    /\ lastRet = <<"quarter", "Err">>
    /\ taskErrLogged > 0
    /\ schedRunning
    /\ inflight["quarter"] > 0
    /\ inflight["emerging"] > 0

\* C3: at a tick, every due job is started in that same step, whichever
\* other jobs are due with it or still in flight: no start waits for
\* another job's body.
C3_DueJobsStartIndependently ==
    [][TickStep =>
        \A j \in added : \A k \in added \ {j} :
            (Due(j, TickInstant) /\ (Due(k, TickInstant) \/ inflight[k] > 0))
                => inflight'[j] = inflight[j] + 1]_vars

\* C3 witness: the two jobs registered with "0 0 17 * * *" are in flight
\* together with the every-minute job.
C3_Witness ==
    /\ inflight["quarter"] > 0
    /\ inflight["emerging"] > 0
    /\ inflight["free_dns"] > 0

\* C4 (as stated): with a malformed cron expression in the registry run_cron
\* returns an error and the scheduler is not started.
C4_MalformedCronIsFatal ==
    (\E j \in Jobs : ~ValidCron(cronOf[j]))
        => (~schedRunning /\ runCron # "Ok")

\* C5 (as stated): run_cron has not returned while a job is in flight.
C5_RunCronBlocksWhileJobsFire ==
    (\E j \in Jobs : inflight[j] > 0) => runCron = "none"

\* C5 (amended): run_cron does not block.  It returns Ok exactly when
\* sched.start() succeeded, start() goes on to the notification, and the
\* dispatch loop stays running after run_cron and start() have returned.
C5_RunCronReturnsOnceStarted ==
    /\ schedRunning <=> runCron = "Ok"
    /\ schedRunning => pc \in {"send", "done"}

\* C5 witness: start() has returned Ok and a job is in flight.
C5_Witness ==
    /\ pc = "done"
    /\ startResult = "Ok"
    /\ \E j \in Jobs : inflight[j] > 0

\* C6: the notification is sent at most once, only after every job of the
\* registry was added and the scheduler was started, exactly once when
\* run_cron succeeded and start() is through, and never when run_cron
\* failed (a failed add or a failed start).
C6_NotifiedOnceAfterArmed ==
    /\ sendCount <= 1
    /\ sendCount = 1 =>
        /\ schedRunning
        /\ toAdd = <<>>
        /\ added = Jobs
    /\ runCron = "Err" => (sendCount = 0 /\ pc = "done")
    /\ (pc = "done" /\ runCron = "Ok") => sendCount = 1

\* C6 witness: all four jobs added, scheduler started, one notification.
C6_Witness ==
    /\ sendCount = 1
    /\ added = Jobs
    /\ schedRunning

\* C7 (as stated): a failed send is logged, start() does not report
\* failure, the send is not retried, the scheduler keeps running.
C7_SendFailureNotReported ==
    (pc = "done" /\ sendResult = "Err")
        => /\ "telegram" \in startLog
           /\ startResult # "Err"
           /\ sendCount = 1
           /\ schedRunning

\* C7 (amended): a failed send is logged and start() returns that error;
\* the send is not retried and the started scheduler is left running.
C7_SendFailureLoggedAndReturned ==
    (pc = "done" /\ sendResult = "Err")
        => /\ "telegram" \in startLog
           /\ startResult = "Err"
           /\ sendCount = 1
           /\ schedRunning

\* C7 witness: the send failed, start() is through, a job is in flight.
C7_Witness ==
    /\ pc = "done"
    /\ sendResult = "Err"
    /\ \E j \in Jobs : inflight[j] > 0

----------------------------------------------------------------------------
(* Properties of the dividend job, checked under SpecDividend *)

WritesOf(w, i) == {x \in writes : x.wf = w /\ x.cand = i}

\* Consecutive fetch starts are at least the sleep apart.
Spaced(starts) ==
    \A i \in 1..(Len(starts) - 1) : starts[i + 1] - starts[i] >= SleepSecs

\* C8 (as stated): when a goodinfo visit of the first workflow fails, the
\* error is logged, every later candidate is still fetched and the function
\* returns Ok.
C8_W1FetchFailureIsSkipped ==
    \A i \in DOMAIN cands1 :
        (<<1, i>> \in fetchFailed /\ pc1 = "done")
            => /\ <<"visit failed", 1, i>> \in divLog
               /\ Len(starts1) = Len(cands1)
               /\ res1 = "Ok"

\* C8 (amended): when a goodinfo visit of the first workflow fails, the `?`
\* returns the error at once: the function is done with Err, the workflow
\* itself logs nothing, the failed candidate is the last one fetched, no
\* write is made for it or for a later candidate, and execute logs the
\* workflow's failure once the join is through.
C8_W1FetchFailureReturnsErr ==
    \A i \in DOMAIN cands1 :
        <<1, i>> \in fetchFailed
            => /\ pc1 = "done"
               /\ res1 = "Err"
               /\ <<"visit failed", 1, i>> \notin divLog
               /\ idx1 = i
               /\ Len(starts1) = i
               /\ \A k \in i..Len(cands1) : WritesOf(1, k) = {}
               /\ execResult = "Ok" => <<"workflow failed", 1, 0>> \in divLog

\* C8 witness: the first of two candidates failed to fetch, execute is
\* through, the second was never fetched.
C8_Witness ==
    /\ <<1, 1>> \in fetchFailed
    /\ Len(cands1) = 2
    /\ Len(starts1) = 1
    /\ execResult = "Ok"

\* C9: when a yahoo visit of the second workflow fails, the failure is
\* logged, no write is made for that candidate, the loop is at a later
\* candidate or through, and at the end every candidate was fetched and the
\* function returned Ok.
C9_W2FetchFailureSkipsCandidate ==
    \A i \in DOMAIN cands2 :
        <<2, i>> \in fetchFailed
            => /\ <<"visit failed", 2, i>> \in divLog
               /\ WritesOf(2, i) = {}
               /\ res2 # "Err"
               /\ pc2 # "done" => idx2 > i
               /\ pc2 = "done" =>
                    (res2 = "Ok" /\ Len(starts2) = Len(cands2))

\* C9 witness: the first candidate failed to fetch and the second was
\* fetched and written.
C9_Witness ==
    /\ <<2, 1>> \in fetchFailed
    /\ pc2 = "done"
    /\ \E x \in WritesOf(2, 2) : x.res = "Ok"

\* C10 (as stated): in both workflows consecutive fetches start at least the
\* delay apart.
C10_BothWorkflowsSpaceFetches == Spaced(starts1) /\ Spaced(starts2)

\* C10 (amended): in processing_without_or_multiple consecutive fetches
\* start at least 90 seconds apart (the thread sleeps after every visit);
\* processing_with_unannounced_ex_dividend_dates has no delay of its own.
C10_W1FetchesSpaced == Spaced(starts1)

\* C10 witness: the first workflow fetched twice and kept its distance
\* while the second workflow fetched too.
C10_Witness ==
    /\ Len(starts1) = 2
    /\ Len(starts2) = 1
    /\ starts1[2] - starts1[1] >= SleepSecs

\* C11: within a run of a workflow the fetch of the next candidate starts
\* only when the current candidate is through: as many fetches were started
\* as the loop has taken candidates, a fetch is outstanding only with no map
\* and no detail of an earlier candidate left to handle, no write belongs to
\* a candidate the loop has not reached, and every write call that returns
\* is one of the candidate the loop is at.
C11_NextFetchAfterCandidateDone ==
    /\ [](/\ Len(starts1) = idx1
          /\ Len(starts2) = idx2
          /\ pc1 = "visit" => (got1 = <<>> /\ pend1 = <<>>)
          /\ \A w \in writes : w.cand <= (IF w.wf = 1 THEN idx1 ELSE idx2))
    /\ [][\A w \in writes' \ writes :
            /\ w.cand = (IF w.wf = 1 THEN idx1 ELSE idx2)
            /\ (IF w.wf = 1 THEN pc1 ELSE pc2) # "visit"]_vars

\* C11 witness: the fetch of the second candidate is outstanding and the
\* upsert of the first candidate has returned.
C11_Witness ==
    /\ pc1 = "visit"
    /\ idx1 = 2
    /\ WritesOf(1, 1) # {}

\* C12 (as stated): the delay between candidates is a suspension point:
\* while the first workflow waits it out, the second workflow, if it is not
\* through, can take its next step.
C12_DelayIsSuspensionPoint ==
    (pc1 = "sleep" /\ pc2 # "done")
        => ENABLED (W2Select \/ W2Visit \/ W2Update)

\* C13: execute returns, and logs the outcome of either workflow, only when
\* both workflows are through; a workflow that failed leaves the other one
\* able to take its next step, and a workflow ends only on its own terms:
\* with Ok after it fetched every candidate, or with Err from its own
\* selection query or (first workflow) its own failed fetch.
C13_JoinWaitsForBoth ==
    /\ execResult = "Ok" => (pc1 = "done" /\ pc2 = "done")
    /\ \A w \in {1, 2} :
         (<<"workflow ok", w, 0>> \in divLog
             \/ <<"workflow failed", w, 0>> \in divLog)
            => (pc1 = "done" /\ pc2 = "done" /\ execResult = "Ok")
    /\ (pc1 = "done" /\ res1 = "Err" /\ pc2 # "done")
         => ENABLED (W2Select \/ W2Visit \/ W2Update)
    /\ (pc2 = "done" /\ res2 = "Err" /\ pc1 # "done")
         => ENABLED (W1Select \/ W1Visit \/ W1Wake \/ W1Upsert)
    /\ pc1 = "done"
         => \/ res1 = "Ok" /\ Len(starts1) = Len(cands1)
            \/ res1 = "Err" /\ starts1 = <<>>
            \/ res1 = "Err" /\ <<1, idx1>> \in fetchFailed
    /\ pc2 = "done"
         => \/ res2 = "Ok" /\ Len(starts2) = Len(cands2)
            \/ res2 = "Err" /\ starts2 = <<>>

\* C13 witness: the first workflow failed, the second fetched its candidate
\* and wrote it, and execute has logged both outcomes and returned.
C13_Witness ==
    /\ execResult = "Ok"
    /\ res1 = "Err"
    /\ res2 = "Ok"
    /\ \E x \in WritesOf(2, 1) : x.res = "Ok"
    /\ <<"workflow failed", 1, 0>> \in divLog
    /\ <<"workflow ok", 2, 0>> \in divLog

\* C14 (as stated): when a workflow of the dividend job ended with an error,
\* execute returns Err.
C14_PipelineErrorPropagates ==
    (execResult # "none" /\ (res1 = "Err" \/ res2 = "Err"))
        => execResult = "Err"

\* C14 (amended): execute never returns Err.  When a workflow ended with an
\* error (its selection query failing: nothing fetched, nothing written),
\* execute itself logs that error once the join is through and returns Ok.
C14_PipelineErrorLoggedByExecute ==
    /\ execResult \in {"none", "Ok"}
    /\ (res1 = "Err" /\ execResult # "none")
         => (execResult = "Ok" /\ <<"workflow failed", 1, 0>> \in divLog)
    /\ (res2 = "Err" /\ execResult # "none")
         => (execResult = "Ok" /\ <<"workflow failed", 2, 0>> \in divLog)
    /\ (res1 = "Err" /\ starts1 = <<>>) => \A x \in writes : x.wf # 1
    /\ (res2 = "Err" /\ starts2 = <<>>) => \A x \in writes : x.wf # 2

\* C14 witness: the selection query of the second workflow failed, execute
\* logged it and returned Ok.
C14_Witness ==
    /\ res2 = "Err"
    /\ starts2 = <<>>
    /\ execResult = "Ok"
    /\ <<"workflow failed", 2, 0>> \in divLog

OwnDetails(details, e) ==
    {i \in DOMAIN details :
        /\ details[i].year_of_dividend = e.year_of_dividend
        /\ details[i].quarter = e.quarter}

\* The fetched list holds the entity's record and its four dates are the
\* entity's.
FetchedSame(details, e) ==
    /\ OwnDetails(details, e) # {}
    /\ \A i \in OwnDetails(details, e) : DatesOf(details[i]) = DatesOf(e)

\* C16: in processing_with_unannounced_ex_dividend_dates, when the visit
\* returns for the candidate's year and quarter the four dates the candidate
\* was selected with, the step calls no update and the loop goes on; no
\* write call of that workflow ever carries the dates its candidate was
\* selected with, and a candidate whose fetch gave the same values has no
\* write.
C16_SameValuesNoWrite ==
    /\ [](\A w \in writes :
            w.wf = 2 => w.dates # DatesOf(cands2[w.cand]))
    /\ []((got2 # <<>> /\ pc2 # "update")
            => (FetchedSame(GetYear(got2[1].map), cands2[got2[1].cand])
                  => WritesOf(2, got2[1].cand) = {}))
    /\ [][(got2' # got2
             /\ FetchedSame(GetYear(got2'[1].map), cands2[idx2]))
            => /\ pc2' # "update"
               /\ writes' = writes
               /\ \/ pc2' = "visit" /\ idx2' = idx2 + 1
                  \/ pc2' = "done" /\ res2' = "Ok"]_vars

\* C16 witness: the visit of the first candidate returned the values it was
\* selected with, an announced first ex-dividend date among them; the loop
\* is through and nothing was written.
C16_Witness ==
    /\ got2 # <<>>
    /\ got2[1].cand = 1
    /\ cands2[1].ex_dividend_date1 = ExA
    /\ FetchedSame(GetYear(got2[1].map), cands2[1])
    /\ pc2 = "done"
    /\ res2 = "Ok"
    /\ WritesOf(2, 1) = {}

\* The table holds the detail's row with the detail's four dates.
StoredSame(table, d) ==
    LET k == Key(d.security_code, d.year_of_dividend, d.quarter)
    IN k \in DOMAIN table /\ table[k] = DatesOf(d)

\* C17 (as stated): in processing_without_or_multiple no upsert is called
\* for a fetched detail whose row the table holds with the same dates.
C17_UnchangedRecordNotUpserted ==
    [][(pc1' = "upsert" /\ (pc1 # "upsert" \/ pend1' # pend1))
          => ~StoredSame(stored', Head(pend1'))]_vars

\* C17 (amended): in processing_without_or_multiple every fetched detail
\* whose year is Year is upserted, whatever the table holds: after the sleep
\* all of them are to be written, and each upsert call that returns is the
\* one of the first detail left, which is then taken off.
C17_EveryCurrentYearRecordUpserted ==
    /\ [](pc1 = "upsert" => pend1 # <<>>)
    /\ [][(pc1 = "sleep" /\ pc1' # "sleep")
            => \A i \in DOMAIN GetYear(got1[1]) :
                 GetYear(got1[1])[i].year = Year
                    => \E j \in DOMAIN pend1' :
                          pend1'[j] = GetYear(got1[1])[i]]_vars
    /\ [][(pc1 = "upsert" /\ <<pc1, pend1>>' # <<pc1, pend1>>)
            => /\ pend1' = Tail(pend1)
               /\ \E res \in {"Ok", "Err"} :
                    WriteCall(1, idx1, Head(pend1), res) \in writes']_vars

\* C17 witness: only the first workflow wrote, and it upserted a
\* second-quarter row with the dates that an untouched row of the table
\* holds, the dates every row of the table had from the start.
C17_Witness ==
    \E w \in writes :
        /\ w.wf = 1
        /\ w.key[3] = "Q2"
        /\ \A x \in writes : x.wf = 1
        /\ \E k \in DOMAIN stored :
             /\ k[1] # w.key[1]
             /\ stored[k] = w.dates
             /\ \A x \in writes : x.key # k

\* The detail's ex-dividend dates are not the entity's.
ExDiffers(detail, e) ==
    \/ detail.ex_dividend_date1 # e.ex_dividend_date1
    \/ detail.ex_dividend_date2 # e.ex_dividend_date2

\* The detail's payable dates are not the entity's.
PayDiffers(detail, e) ==
    \/ detail.payable_date1 # e.payable_date1
    \/ detail.payable_date2 # e.payable_date2

\* C18 (as stated): when the visit returns, for the candidate's year and
\* quarter, payable dates that are not the candidate's, the update is called
\* with fetched dates, the ex-dividend dates changed or not.
C18_PayableChangeIsWritten ==
    [][(got2' # got2
          /\ \E i \in OwnDetails(GetYear(got2'[1].map), cands2[idx2]) :
                PayDiffers(GetYear(got2'[1].map)[i], cands2[idx2]))
         => pc2' = "update"]_vars

\* C18 (amended): the update is called exactly when the visit returns, for
\* the candidate's year and quarter, a detail whose ex-dividend dates are
\* not the candidate's; a detail that differs in its payable dates only
\* calls no update and the loop goes on.
C18_OnlyExDateChangeIsWritten ==
    [][got2' # got2
         => LET e == cands2[idx2]
                details == GetYear(got2'[1].map)
                changed == \E i \in OwnDetails(details, e) :
                              ExDiffers(details[i], e)
            IN /\ pc2' = "update" <=> changed
               /\ ~changed => /\ writes' = writes
                              /\ \/ pc2' = "visit" /\ idx2' = idx2 + 1
                                 \/ pc2' = "done" /\ res2' = "Ok"]_vars

\* C18 witness: the visit of the first candidate returned its ex-dividend
\* dates with another payable date; the loop is through, nothing was written
\* for it and the row holds the payable date it had.
C18_Witness ==
    /\ got2 # <<>>
    /\ got2[1].cand = 1
    /\ \E i \in OwnDetails(GetYear(got2[1].map), cands2[1]) :
         /\ ~ExDiffers(GetYear(got2[1].map)[i], cands2[1])
         /\ PayDiffers(GetYear(got2[1].map)[i], cands2[1])
    /\ pc2 = "done"
    /\ WritesOf(2, 1) = {}
    /\ writes = {}
    /\ stored[Key(cands2[1].security_code, cands2[1].year_of_dividend,
                  cands2[1].quarter)].payable_date1
         = cands2[1].payable_date1

\* C19: when the visit returns, for the candidate's year and quarter, a
\* detail whose ex-dividend dates are not the candidate's, the step calls
\* update_dividend_date for the candidate's row with the four dates of such
\* a detail, also where a fetched date is blank; the call is the only write
\* for that candidate, and when it returns Ok the row holds the four fetched
\* dates.
C19_ExDateChangeOverwritesAll ==
    /\ [](\A i \in DOMAIN cands2 : Cardinality(WritesOf(2, i)) <= 1)
    /\ []((got2 # <<>> /\ (pc2 = "done" \/ idx2 > got2[1].cand))
            => LET i == got2[1].cand
                   details == GetYear(got2[1].map)
               IN (\E k \in OwnDetails(details, cands2[i]) :
                       ExDiffers(details[k], cands2[i]))
                    => \E w \in WritesOf(2, i), k \in OwnDetails(details,
                                                                cands2[i]) :
                          /\ WritesOf(2, i) = {w}
                          /\ ExDiffers(details[k], cands2[i])
                          /\ w.dates = DatesOf(details[k]))
    /\ [][(got2' # got2
             /\ \E k \in OwnDetails(GetYear(got2'[1].map), cands2[idx2]) :
                   ExDiffers(GetYear(got2'[1].map)[k], cands2[idx2]))
            => /\ pc2' = "update"
               /\ idx2' = idx2
               /\ ent2'.security_code = cands2[idx2].security_code
               /\ ent2'.year_of_dividend = cands2[idx2].year_of_dividend
               /\ ent2'.quarter = cands2[idx2].quarter
               /\ \E k \in OwnDetails(GetYear(got2'[1].map), cands2[idx2]) :
                    /\ ExDiffers(GetYear(got2'[1].map)[k], cands2[idx2])
                    /\ DatesOf(ent2') = DatesOf(GetYear(got2'[1].map)[k])]_vars
    /\ [][\A w \in writes' \ writes :
            w.wf = 2 =>
              /\ pc2 = "update"
              /\ w.cand = idx2
              /\ w.key = Key(cands2[idx2].security_code,
                             cands2[idx2].year_of_dividend,
                             cands2[idx2].quarter)
              /\ w.dates = DatesOf(ent2)
              /\ WritesOf(2, idx2) = {}
              /\ pc2' # "update" \/ idx2' # idx2
              /\ w.res = "Ok" => stored'[w.key] = w.dates
              /\ w.res = "Err" => stored' = stored]_vars

\* C19 witness: the candidate was selected with a payable date; the visit
\* returned another ex-dividend date and no payable date; the one update
\* returned Ok and the row holds the fetched dates, the payable date blank.
C19_Witness ==
    /\ pc2 = "done"
    /\ cands2 # <<>>
    /\ cands2[1].payable_date1 = PayA
    /\ \E w \in WritesOf(2, 1) :
         /\ WritesOf(2, 1) = {w}
         /\ w.res = "Ok"
         /\ w.dates = Dates(ExB, "", "", "")
         /\ stored[w.key] = w.dates

\* C20: only fetched details of Year are written.  In the first workflow
\* the details left to upsert are all of Year and each upsert that returns
\* is the one of the first of them; in the second workflow the entity handed
\* to update_dividend_date has the dates of a detail filed under Year.  When
\* the map a visit returned has no entry for Year, the step writes nothing,
\* logs nothing, records no failure and goes to the next candidate, or the
\* function returns Ok; no write is ever made for that candidate.
C20_OnlyTargetYearIsWritten ==
    /\ [](\A i \in DOMAIN pend1 : pend1[i].year = Year)
    /\ [](\A w \in writes : w.key[2] = Year)
    /\ [](pc2 = "update"
            => \E k \in DOMAIN GetYear(got2[1].map) :
                 /\ GetYear(got2[1].map)[k].year = Year
                 /\ DatesOf(ent2) = DatesOf(GetYear(got2[1].map)[k]))
    /\ []((got2 # <<>> /\ Year \notin DOMAIN got2[1].map)
            => WritesOf(2, got2[1].cand) = {})
    /\ [][\A w \in writes' \ writes :
            w.wf = 1 => /\ Head(pend1).year = Year
                        /\ w = WriteCall(1, idx1, Head(pend1), w.res)]_vars
    /\ [][(pc1 = "sleep" /\ pc1' # "sleep" /\ Year \notin DOMAIN got1[1])
            => /\ writes' = writes
               /\ pend1' = <<>>
               /\ divLog' = divLog
               /\ fetchFailed' = fetchFailed
               /\ \/ pc1' = "visit" /\ idx1' = idx1 + 1
                  \/ pc1' = "done" /\ res1' = "Ok"]_vars
    /\ [][(got2' # got2 /\ Year \notin DOMAIN got2'[1].map)
            => /\ writes' = writes
               /\ divLog' = divLog
               /\ fetchFailed' = fetchFailed
               /\ \/ pc2' = "visit" /\ idx2' = idx2 + 1
                  \/ pc2' = "done" /\ res2' = "Ok"]_vars

\* C20 witness: the first workflow wrote the details of Year of a list that
\* began with a detail of another year; the visit of the second workflow's
\* first candidate returned a map with no entry for Year, nothing was
\* written for it and the workflow went on to the end.
C20_Witness ==
    /\ \E w \in writes : w.wf = 1 /\ w.key[3] = "Q1"
    /\ got2 # <<>>
    /\ got2[1].cand = 1
    /\ Year \notin DOMAIN got2[1].map
    /\ WritesOf(2, 1) = {}
    /\ <<2, 1>> \notin fetchFailed
    /\ pc2 = "done"
    /\ res2 = "Ok"

\* Two Revenue records of one key ("SecurityCode", "Date").
SameRevKey(a, b) == a.security_code = b.security_code /\ a.date = b.date

\* Record r is the one the last successful Revenue::upsert of its key wrote.
LastWritten(r) ==
    \E i \in DOMAIN revLog :
        /\ revLog[i].res = "Ok"
        /\ revLog[i].rec = r
        /\ \A k \in (i + 1)..Len(revLog) :
              revLog[k].res = "Err" \/ ~SameRevKey(revLog[k].rec, r)

\* C21: Revenue::upsert is idempotent.  From every table reached, the
\* statement run twice for a record gives the table it gives run once; and a
\* call that succeeds for the record the last successful call of its key
\* wrote leaves the table as it is, one row for the key.
C21_UpsertIdempotent ==
    /\ [](\A r \in RevRecords :
            RevenueUpsert(RevenueUpsert(revTable, r, Statements + 1), r,
                          Statements + 2)
              = RevenueUpsert(revTable, r, Statements + 1))
    /\ [][(/\ Len(revLog') = Len(revLog) + 1
           /\ revLog'[Len(revLog')].res = "Ok"
           /\ LastWritten(revLog'[Len(revLog')].rec))
            => /\ revTable' = revTable
               /\ Cardinality(RevConflicts(revTable',
                                           revLog'[Len(revLog')].rec)) = 1]_vars

\* C21 witness: upsert succeeded twice for one record whose key the table
\* did not hold; the table holds the one row the first call inserted.
C21_Witness ==
    /\ Len(revLog) = 2
    /\ revLog[1].res = "Ok"
    /\ revLog[2] = revLog[1]
    /\ revTable = {[security_code |-> revLog[1].rec.security_code,
                    date |-> revLog[1].rec.date,
                    monthly |-> revLog[1].rec.monthly,
                    avg_price |-> revLog[1].rec.avg_price,
                    create_time |-> 1]}

\* A call of DailyMoneyHistory::upsert whose write is in the table for good:
\* it succeeded on the connection, or in a transaction that was committed.
Durable(c) ==
    /\ c.res = "Ok"
    /\ c.tx = 0 \/ dmhTxs[c.tx] = "committed"

\* C22: after any sequence of upserts each table holds at most one row per
\* key (Revenue: security code and date; daily_money_history: date), and the
\* row's data columns are those of the last upsert of the key that took
\* effect; a key no upsert wrote has the row it had, if any.
C22_OneRowPerKeyLastWriterWins ==
    /\ \A a, b \in revTable : SameRevKey(a, b) => a = b
    /\ \A r \in RevRecords :
         LastWritten(r)
            => \E row \in revTable :
                  /\ SameRevKey(row, r)
                  /\ row.monthly = r.monthly
                  /\ row.avg_price = r.avg_price
    /\ \A row \in revTable :
         (\A i \in DOMAIN revLog :
             revLog[i].res = "Err" \/ ~SameRevKey(revLog[i].rec, row))
            => row = RevRow0
    /\ \A a, b \in dmhTable : a.date = b.date => a = b
    /\ \A i \in DOMAIN dmhLog :
         (/\ Durable(dmhLog[i])
          /\ \A k \in (i + 1)..Len(dmhLog) :
                ~Durable(dmhLog[k]) \/ dmhLog[k].date # dmhLog[i].date)
            => \E row \in dmhTable :
                  /\ row.date = dmhLog[i].date
                  /\ row.sum = dmhLog[i].sums.sum
                  /\ row.eddie = dmhLog[i].sums.eddie
                  /\ row.unice = dmhLog[i].sums.sum - dmhLog[i].sums.eddie
    /\ \A row \in dmhTable :
         (\A i \in DOMAIN dmhLog :
             ~Durable(dmhLog[i]) \/ dmhLog[i].date # row.date)
            => row = DmhRow0

\* C22 witness: each table held a row; one upsert per table succeeded for
\* that row's key with other data, and each table holds the one row with the
\* data of the upsert.
C22_Witness ==
    /\ Len(revLog) = 1
    /\ revLog[1].res = "Ok"
    /\ revTable = {[RevRow0 EXCEPT !.monthly = 20, !.avg_price = 6]}
    /\ Len(dmhLog) = 1
    /\ Durable(dmhLog[1])
    /\ \E t \in 1..MaxStmts :
         dmhTable = {[DmhRow0 EXCEPT !.sum = 4, !.eddie = 2, !.unice = 2,
                                     !.updated_time = t]}

\* C23: a call of DailyMoneyHistory::upsert that is handed a transaction
\* runs in it and ends it neither way: when the call returns the table is as
\* it was and the transaction is still the caller's (open, or failed with
\* the statement); its write reaches the table in the step the caller
\* commits and never if the caller rolls back.  A call handed no transaction
\* writes the table when it returns Ok and touches no transaction.
C23_UpsertLeavesTransactionToCaller ==
    /\ [][(Len(dmhLog') = Len(dmhLog) + 1 /\ dmhLog'[Len(dmhLog')].tx # 0)
            => /\ dmhLog'[Len(dmhLog')].tx = Len(dmhTxs)
               /\ dmhTxs[Len(dmhTxs)] = "open"
               /\ dmhTable' = dmhTable
               /\ Len(dmhTxs') = Len(dmhTxs)
               /\ dmhTxs'[Len(dmhTxs)] =
                    (IF dmhLog'[Len(dmhLog')].res = "Ok" THEN "open"
                     ELSE "failed")]_vars
    /\ [][(Len(dmhLog') = Len(dmhLog) + 1 /\ dmhLog'[Len(dmhLog')].tx = 0)
            => /\ dmhTxs' = dmhTxs
               /\ dmhTable' =
                    (IF dmhLog'[Len(dmhLog')].res = "Ok"
                     THEN MoneyHistoryUpsert(dmhTable,
                                             dmhLog'[Len(dmhLog')].date,
                                             dmhLog'[Len(dmhLog')].sums,
                                             dmhLog'[Len(dmhLog')].at)
                     ELSE dmhTable)]_vars
    /\ [][(dmhTxs # <<>> /\ Len(dmhTxs') = Len(dmhTxs)
             /\ dmhTxs'[Len(dmhTxs)] # dmhTxs[Len(dmhTxs)])
            => CASE dmhTxs'[Len(dmhTxs)] = "committed" ->
                      /\ dmhLog' = dmhLog
                      /\ dmhTable' = ApplyCalls(dmhTable,
                                                TxWrites(Len(dmhTxs)))
                 [] dmhTxs'[Len(dmhTxs)] = "rolledback" ->
                      /\ dmhLog' = dmhLog
                      /\ dmhTable' = dmhTable
                 [] OTHER -> dmhTable' = dmhTable]_vars

\* C23 witness: the table was empty; an upsert in a first transaction
\* succeeded and the caller committed, an upsert of the other date in a
\* second transaction succeeded and the caller rolled back: the table holds
\* the first date's row and none for the second.
C23_Witness ==
    /\ dmhTxs = <<"committed", "rolledback">>
    /\ Len(dmhLog) = 2
    /\ dmhLog[1].tx = 1 /\ dmhLog[1].res = "Ok"
    /\ dmhLog[2].tx = 2 /\ dmhLog[2].res = "Ok"
    /\ dmhLog[1].date # dmhLog[2].date
    /\ \E row \in dmhTable :
         /\ dmhTable = {row}
         /\ row.date = dmhLog[1].date
         /\ row.sum = dmhLog[1].sums.sum

----------------------------------------------------------------------------
(* Properties of the suspended-listing job, checked under SpecSuspend *)

\* C24: visit() holds no guard of the stock cache when it makes an external
\* call: the request for the feed and every update_suspend_listing call are
\* made, and awaited, with no guard held; the read guard is held only by
\* the loop over the feed, and the write guard only once every update has
\* returned, to extend the cache with the clones already collected.
C24_NoCacheLockAcrossExternalCall ==
    /\ \A i \in 1..Len(slCalls) : slCalls[i].lock = "none"
    /\ slPc \in {"fetch", "update"} => stocksLock = "none"
    /\ stocksLock = "read" => slPc = "scan"
    /\ stocksLock = "write" => slPc = "extend" /\ items_to_update = <<>>

\* C24 witness: an invocation that requested the feed, scanned it under the
\* read guard, updated two rows and extended the cache has returned.
C24_Witness ==
    /\ slPc = "done"
    /\ Len(slCalls) = 3
    /\ slCalls[1].call = "http"
    /\ slCalls[2].call = "db"
    /\ Len(updated_stocks) >= 1
    /\ \A i \in 1..Len(updated_stocks) :
         stocks[updated_stocks[i].stock_symbol].suspend_listing

\* C25: no step of visit() changes the set of symbols the cache holds, and
\* none turns the suspend_listing flag of a cached record from true to
\* false; over any sequence of invocations the cache holds the symbols it
\* held at first.
C25_CachedSymbolsKeptFlagNeverReset ==
    /\ [](DOMAIN stocks = CachedSymbols)
    /\ [][/\ DOMAIN stocks' = DOMAIN stocks
          /\ \A s \in DOMAIN stocks :
               stocks[s].suspend_listing => stocks'[s].suspend_listing]_vars

\* C25 witness: a second invocation has extended the cache after a feed
\* that named a symbol the cache does not hold, a record being flagged
\* before it and one more by it.
C25_Witness ==
    /\ slRuns = 2
    /\ slPc = "done"
    /\ \E i \in 1..Len(delisting) :
         delisting[i].stock_symbol \notin DOMAIN stocks
    /\ Len(updated_stocks) = 1
    /\ \A s \in DOMAIN stocks : stocks[s].suspend_listing

----------------------------------------------------------------------------
(* Properties of the quote job and of the TTL cache, checked under        *)
(* SpecQuote                                                               *)

\* s is an initial part of t.
IsPrefix(s, t) == Len(s) <= Len(t) /\ s = SubSeq(t, 1, Len(s))

\* C26: the quote job calls its steps in the order of Steps, each one only
\* when all before it returned Ok; it clears the TTL cache at most once, in
\* the step in which the last of them returns Ok, the whole cache at once;
\* once it has returned, with Err because a step failed or with Ok, it
\* calls no further step and does not clear.
C26_ClearOnceAfterWholeChain ==
    /\ [](/\ IsPrefix(qStarted, Steps)
          /\ IsPrefix(qOk, Steps)
          /\ Len(qStarted) <= Len(qOk) + 1
          /\ qClears <= 1
          /\ qClears = 1 => qOk = Steps /\ qRes = "Ok"
          /\ qRes = "Err" => Len(qOk) < Len(qStarted) /\ qClears = 0)
    /\ [][/\ qClears' # qClears
             => /\ qOk' = Steps
                /\ qOk = SubSeq(Steps, 1, Len(Steps) - 1)
                /\ DOMAIN ttlEntries' = {}
          /\ qRes # "none"
             => qStarted' = qStarted /\ qOk' = qOk /\ qClears' = qClears]_vars

\* C26 witness: every step returned Ok and the cache, which held an entry,
\* was cleared.
C26_Witness ==
    /\ qClears = 1
    /\ qRes = "Ok"
    /\ qStarted = Steps
    /\ DOMAIN ttlCleared # {}
    /\ DOMAIN ttlEntries = {}

\* C27: a read of a key that the last clear dropped, and that nobody has put
\* since, gives none, whatever ttl the entry had left when it was dropped;
\* such a key has no entry.
C27_ClearedKeyReadsNone ==
    /\ [](\A k \in DOMAIN ttlCleared : k \notin DOMAIN ttlEntries)
    /\ [][\A k \in DOMAIN ttlCleared :
            (ttlRead' # ttlRead /\ ttlRead'[1].key = k)
               => ttlRead'[1].res = <<>>]_vars

\* C27 witness: a key whose entry had ttl left when the cache was cleared
\* has been read since, within that ttl.
C27_Witness ==
    /\ qClears = 1
    /\ ttlRead # <<>>
    /\ ttlRead[1].key \in DOMAIN ttlCleared
    /\ ttlRead[1].at - ttlCleared[ttlRead[1].key] < TtlSecs
    /\ ttlRead[1].res = <<>>

\* C28: a read gives the value of the entry while less than the ttl has
\* passed since its insertion and none once more has passed, the age being
\* taken at the read; an entry inserted at t0 and read with a ttl of 60
\* seconds gives its value at t0 + 30 and none at t0 + 61.
C28_EntryExpiresOnRead ==
    /\ [](\A t0 \in {0, 30, 31}, v \in TtlValues :
            LET entries == TtlPut(ttlEntries, "k1", v, t0)
            IN  /\ TtlGet(entries, "k1", 60, t0 + 30) = {<<v>>}
                /\ TtlGet(entries, "k1", 60, t0 + 61) = {<<>>})
    /\ [][(ttlRead' # ttlRead /\ ttlRead'[1].key \in DOMAIN ttlEntries)
            => LET e == ttlEntries[ttlRead'[1].key]
               IN  /\ ttlNow - e.at < TtlSecs => ttlRead'[1].res = <<e.value>>
                   /\ ttlNow - e.at > TtlSecs => ttlRead'[1].res = <<>>
                   /\ ttlEntries' = ttlEntries]_vars

\* C28 witness: an entry still stored was read 61 seconds after its
\* insertion, and gave none.
C28_Witness ==
    /\ ttlRead # <<>>
    /\ ttlRead[1].key \in DOMAIN ttlEntries
    /\ ttlRead[1].at = ttlEntries[ttlRead[1].key].at + 61
    /\ ttlRead[1].res = <<>>
    /\ ttlNow = ttlRead[1].at

----------------------------------------------------------------------------
(* Further properties of the dividend job, checked under SpecDividend *)

C30_ExecuteTerminatesOk ==
    /\ [](execResult \in {"none", "Ok"})
    /\ <>(execResult = "Ok")

\* C30 witness: execute returned Ok after a visit of each workflow failed
\* and a write failed.
C30_Witness ==
    /\ execResult = "Ok"
    /\ \E k \in 1..Len(cands1) : <<1, k>> \in fetchFailed
    /\ \E k \in 1..Len(cands2) : <<2, k>> \in fetchFailed
    /\ \E w \in writes : w.res = "Err"

\* The symbols of a sequence of records.
SymbolsOf(recs) == {recs[i].stock_symbol : i \in 1..Len(recs)}

\* C31: a record of the cache is flagged only when the row of its stock is
\* flagged in the database; the step that flags it is the extend of a run
\* whose update of that stock returned Ok, and every other record, that of
\* a stock whose update failed included, is left as it was.  An update that
\* returns Err keeps its clone out of the write-back.
C31_CacheFlagOnlyAfterDbUpdate ==
    /\ [](/\ \A s \in DOMAIN stocks :
               stocks[s].suspend_listing => s \in dbSuspended
          /\ SymbolsOf(updated_stocks) \subseteq dbSuspended)
    /\ [][/\ \A s \in DOMAIN stocks :
               stocks'[s].suspend_listing # stocks[s].suspend_listing
                  => /\ slPc = "extend"
                     /\ s \in SymbolsOf(updated_stocks)
                     /\ stocks'[s].suspend_listing
          /\ slPc = "extend"
                => \A s \in DOMAIN stocks \ SymbolsOf(updated_stocks) :
                      stocks'[s] = stocks[s]
          /\ (Len(slLog') > Len(slLog) /\ slLog'[Len(slLog')] = "update")
                => /\ updated_stocks' = updated_stocks
                   /\ dbSuspended' = dbSuspended]_vars

\* C31 witness: of two updates of a run one failed and one returned Ok; the
\* run has written back, the cache flags the one stock the database flags.
C31_Witness ==
    /\ slPc = "done"
    /\ Len(slCalls) = 3
    /\ slLog = <<"update">>
    /\ Len(updated_stocks) = 1
    /\ dbSuspended = SymbolsOf(updated_stocks)
    /\ \A s \in DOMAIN stocks :
         stocks[s].suspend_listing <=> s \in dbSuspended

\* C32 (as stated): the write-back of a run leaves each record it flags as
\* the cache held it just before, other jobs' changes included, with the
\* flag set.
C32_ConcurrentChangeKept ==
    [][slPc = "extend"
         => \A s \in SymbolsOf(updated_stocks) :
              stocks'[s] = [stocks[s] EXCEPT !.suspend_listing = TRUE]]_vars

\* The request of the running invocation failed.
FetchFailed == slLog # <<>> /\ slLog[1] = "fetch"

\* A step of visit(), as opposed to one of another job.
VisitStep == slPc' # slPc \/ slCalls' # slCalls \/ slAt' # slAt

\* C33: an invocation on a weekend returns at once, and one whose request
\* failed (transport or deserialization) has nothing to update: neither
\* makes a database call, and no step of either changes the cache or the
\* flags of the database.
C33_WeekendOrFailedFetchChangesNothing ==
    /\ [](FetchFailed =>
            /\ \A i \in 1..Len(slCalls) : slCalls[i].call # "db"
            /\ items_to_update = <<>>
            /\ updated_stocks = <<>>)
    /\ [][/\ (slRuns' # slRuns /\ slPc' = "done")
               => /\ stocks' = stocks
                  /\ dbSuspended' = dbSuspended
                  /\ slCalls' = <<>>
          /\ ((FetchFailed \/ FetchFailed') /\ VisitStep)
               => /\ stocks' = stocks
                  /\ dbSuspended' = dbSuspended]_vars

\* C33 witness: with a stock not yet flagged in the cache, the request of an
\* invocation failed and the invocation has returned, the write-back done.
C33_Witness ==
    /\ slPc = "done"
    /\ FetchFailed
    /\ Len(slCalls) = 1
    /\ ~poisoned
    /\ \E s \in DOMAIN stocks : ~stocks[s].suspend_listing

\* No year can be taken from the delisting date: it has no prefix of three
\* bytes, or the prefix is no number.
NoYear(date) == ~CanSlice3(date) \/ ~ParseI32(Slice3(date)).ok

\* C34 (as stated): the turn of the loop at a row of a cached, not yet
\* flagged stock whose delisting date gives no year logs the row and goes
\* on to the next row.
C34_BadDateLoggedAndSkipped ==
    [][(/\ slPc = "scan"
        /\ slAt <= Len(delisting)
        /\ delisting[slAt].stock_symbol \in DOMAIN stocks
        /\ ~stocks[delisting[slAt].stock_symbol].suspend_listing
        /\ NoYear(delisting[slAt].delisting_date)
        /\ VisitStep)
         => /\ slLog' = Append(slLog, "date")
            /\ slAt' = slAt + 1
            /\ slPc' = "scan"]_vars

----------------------------------------------------------------------------
(* Properties of the log writer, checked under SpecLog *)

\* The ids of the messages of a batch.
IdsOf(batch) == {batch[i].id : i \in 1..Len(batch)}

\* The messages an error_console line of the writer task stands for.
Reported == UNION {IdsOf(logConsole[i].batch) : i \in 1..Len(logConsole)}

\* C35 (as stated): the file holds the messages in the order sent; once the
\* channel is empty nothing is left in the batch buffer and every message
\* sent is in the file or was reported on the console.
C35_EveryMessageWrittenOrReported ==
    /\ \A i, j \in 1..Len(logFile) : i < j => logFile[i].id < logFile[j].id
    /\ logChan = <<>> =>
         /\ logLine = <<>>
         /\ \A id \in 1..logSent : id \in IdsOf(logFile) \/ id \in Reported

====
